---- MODULE Spec2Model ----
(***************************************************************************)
(* State-machine model of the fundamentals-to-valuation pipeline:          *)
(*   data/alpha_vantage.py  AlphaVantageClient (pacing, retries, endpoints) *)
(*   data/prices.py         change-percent helpers                          *)
(*   data/universe.py       overview cache, fast_screen_with_quotes         *)
(*   data/fundamentals.py   fundamentals cache, fetch_fundamentals,         *)
(*                          compute_metrics                                 *)
(*   logic/valuation.py     dcf_lite                                        *)
(*   logic/rules.py         quality_pass, mos_pass                          *)
(* Time is in whole seconds.  Python values are modelled by tagged records. *)
(***************************************************************************)
EXTENDS Integers, Sequences, FiniteSets, TLC

VARIABLES
    now,      \* time.time(), seconds
    av,       \* the AlphaVantageClient object: pause_sec, max_retries, last_call_ts
    call,     \* position inside AlphaVantageClient._get and the endpoint that called it
    outcome,  \* how the last endpoint call ended (returned value or raised error)
    obs,      \* observations of the HTTP traffic of the client (history)
    scr,      \* fast_screen_with_quotes: its locals and position in the loop
    scr_log,  \* provider calls made by the running screen (history)
    fund_file, \* the file fund_<symbol>.json of the fundamentals cache
    ov_file,  \* the file overview_<symbol>.json of the overview cache
    fnd,      \* the last cache read, cache write and fetch_fundamentals call (history)
    nrm,      \* the uncached fetch_fundamentals call and the metrics computed from it
    val,      \* the valuation and the gates: inputs, position and results
    api       \* tools/api.py: the page loop and the retry loop of one call

vars == <<now, av, call, outcome, obs, scr, scr_log, fund_file, ov_file, fnd, nrm, val, api>>

fetchVars == <<av, call, outcome, obs>>

screenVars == <<scr, scr_log>>

cacheVars == <<fund_file, ov_file, fnd>>

notFetch == <<scr, scr_log, fund_file, ov_file, fnd, nrm, val, api>>

notScreen == <<now, av, call, outcome, obs, fund_file, ov_file, fnd, nrm, val, api>>

notCache == <<av, call, outcome, obs, scr, scr_log, nrm, val, api>>

notNorm == <<now, av, call, outcome, obs, scr, scr_log, fund_file, ov_file, fnd, val, api>>

notVal == <<now, av, call, outcome, obs, scr, scr_log, fund_file, ov_file, fnd, nrm, api>>

notApi == <<now, av, call, outcome, obs, scr, scr_log, fund_file, ov_file, fnd, nrm, val>>

(***************************************************************************)
(* Generic helpers                                                         *)
(***************************************************************************)
Min(a, b) == IF a <= b THEN a ELSE b

Max(a, b) == IF a >= b THEN a ELSE b

Abs(x) == IF x < 0 THEN -x ELSE x

\* A cell: one Python scalar as it sits in a JSON document or a DataFrame.
\*   k = "numstr"  the string of the integer v ("100")
\*   k = "datestr" a parseable date string of year v ("2023-12-31")
\*   k = "text"    a string that is neither a number nor a date ("abc")
\*   k = "nonestr" the string "None";  k = "empty" the string ""
\*   k = "null"    Python None;        k = "nan"   float NaN (a missing cell)
\*   k = "ts"      pandas Timestamp of year v;  k = "nat" pandas NaT
Cell(k, v) == [k |-> k, v |-> v]

NumStr(n) == Cell("numstr", n)

DateStr(y) == Cell("datestr", y)

TextStr == Cell("text", 0)

NoneStr == Cell("nonestr", 0)

EmptyStr == Cell("empty", 0)

PyNull == Cell("null", 0)

NaN == Cell("nan", 0)

Timestamp(y) == Cell("ts", y)

NaT == Cell("nat", 0)

(***************************************************************************)
(* HTTP response bodies.                                                   *)
(*   fmt     "dict": a JSON object; "list": JSON that is not an object;    *)
(*           "text": not JSON (resp.json() raises ValueError)              *)
(*   keys    the top-level keys of a JSON object                           *)
(*   gq      the "Global Quote" object: its size and its                   *)
(*           "10. change percent" cell (k = "absent" when missing)         *)
(*   ts      the "Time Series (Daily)" rows as the vendor sends them,      *)
(*           newest first: <<date cell, "5. adjusted close" cell,          *)
(*           "4. close" cell>> (k = "absent" when the row lacks the key)   *)
(*   note    the value under "Note" (k = "absent" when there is none)      *)
(*   csv     for a text body: number of data rows and of columns           *)
(*   lead    the first character of the stripped text when it is '{' or    *)
(*           '[', "" otherwise (a JSON object always starts with '{')      *)
(*   ragged  for a text body: some data row has more fields than the       *)
(*           header (csv.DictReader files the surplus under the key None)  *)
(***************************************************************************)
Absent == Cell("absent", 0)

EmptyQuote == [size |-> 0, pct |-> Absent]

NoCsv == [rows |-> 0, cols |-> 0]

\* reports: the record list under "annualReports" / "annualEarnings"
BlankBody ==
    [fmt |-> "dict", keys |-> {}, gq |-> EmptyQuote, ts |-> <<>>,
     reports |-> <<>>, csv |-> NoCsv, lead |-> "{", ragged |-> FALSE, note |-> Absent]

JsonDict(keys) == [BlankBody EXCEPT !.keys = keys]

\* {"Note": <c>}
NoteBodyOf(c) == [JsonDict({"Note"}) EXCEPT !.note = c]

NoteBody == NoteBodyOf(TextStr)

EmptyDictBody == JsonDict({})

ErrorDictBody == JsonDict({"Error Message"})

JsonListBody == [BlankBody EXCEPT !.fmt = "list", !.lead = "["]

TextBody(rows, cols) ==
    [BlankBody EXCEPT !.fmt = "text", !.csv = [rows |-> rows, cols |-> cols], !.lead = ""]

\* a text that is not JSON although it starts with '{' or '['
LedTextBody(lead, rows, cols) == [TextBody(rows, cols) EXCEPT !.lead = lead]

\* a CSV text in which a data row is longer than the header
RaggedTextBody(rows, cols) == [TextBody(rows, cols) EXCEPT !.ragged = TRUE]

QuoteBody(size, pct) ==
    [BlankBody EXCEPT !.keys = {"Global Quote"}, !.gq = [size |-> size, pct |-> pct]]

DailyBody(rows) ==
    [BlankBody EXCEPT !.keys = {"Meta Data", "Time Series (Daily)"}, !.ts = rows]

OverviewBody == JsonDict({"Symbol", "Name", "Sector"})

ReportsBody(reports) ==
    [BlankBody EXCEPT !.keys = {"symbol", "annualReports"}, !.reports = reports]

MoversBody == JsonDict({"metadata", "top_gainers", "top_losers"})

EarningsBody(reports) ==
    [BlankBody EXCEPT !.keys = {"symbol", "annualEarnings"}, !.reports = reports]

IsNote(b) == b.fmt = "dict" /\ "Note" \in b.keys

(***************************************************************************)
(* Python values returned by the endpoints.                                *)
(*   type "None" | "dict"; tag says which dict: "data" the JSON document   *)
(*   itself, "quote" its "Global Quote" object, "__note" / "__raw" the     *)
(*   one-key wrappers built by global_quote; note is the value under       *)
(*   "__note".                                                             *)
(***************************************************************************)
PyNone ==
    [type |-> "None", tag |-> "", keys |-> {}, gq |-> EmptyQuote, reports |-> <<>>,
     note |-> Absent]

PyDict(tag, keys, gq, reports) ==
    [type |-> "dict", tag |-> tag, keys |-> keys, gq |-> gq, reports |-> reports,
     note |-> Absent]

EmptyDataFrame == <<>>

\* Stable ascending insertion of x into the sorted sequence s of [key, item].
RECURSIVE InsertByKey(_, _)
InsertByKey(s, x) ==
    IF s = <<>> THEN <<x>>
    ELSE IF x.key < s[Len(s)].key
         THEN Append(InsertByKey(SubSeq(s, 1, Len(s) - 1), x), s[Len(s)])
         ELSE Append(s, x)

RECURSIVE SortByKey(_)
SortByKey(s) ==
    IF s = <<>> THEN <<>>
    ELSE InsertByKey(SortByKey(SubSeq(s, 1, Len(s) - 1)), s[Len(s)])

SelectSeqIdx(s, Keep(_)) ==
    LET F[i \in 0..Len(s)] ==
            IF i = 0 THEN <<>>
            ELSE IF Keep(s[i]) THEN Append(F[i - 1], s[i]) ELSE F[i - 1]
    IN F[Len(s)]

\* pd.to_datetime(x, errors="coerce") on one cell
ToDatetime(c) == IF c.k = "datestr" THEN Timestamp(c.v) ELSE NaT

\* pd.to_numeric(x, errors="coerce") on one cell
ToNumeric(c) == IF c.k = "numstr" THEN c ELSE NaN

(***************************************************************************)
(* AlphaVantageClient endpoints, as functions of the response body         *)
(***************************************************************************)
global_quote(b) ==
    IF b.fmt = "text" THEN PyNone
    ELSE IF b.fmt = "dict" /\ "Note" \in b.keys
    THEN [PyDict("__note", {"__note"}, EmptyQuote, <<>>) EXCEPT !.note = b.note]
    ELSE IF b.fmt = "dict" /\ "Global Quote" \in b.keys
    THEN (IF b.gq.size > 0 THEN PyDict("quote", {}, b.gq, <<>>) ELSE PyNone)
    ELSE IF b.fmt = "dict"
    THEN PyDict("__raw", {"__raw"}, EmptyQuote, <<>>)
    ELSE PyNone

\* rows of the tidy DataFrame: [date, adj_close, close], oldest first.  A
\* column exists when some row of the payload has its key (a row without it
\* holds NaN there); the cell of a column the frame lacks is Absent.
daily_adjusted(b) ==
    IF b.fmt = "text" THEN EmptyDataFrame
    ELSE IF b.fmt # "dict" \/ "Time Series (Daily)" \notin b.keys THEN EmptyDataFrame
    ELSE IF b.ts = <<>> THEN EmptyDataFrame
    ELSE LET HasColumn(j) == \E i \in 1..Len(b.ts) : b.ts[i][j].k # "absent"
             Column(i, j) == IF ~HasColumn(j) THEN Absent
                             ELSE IF b.ts[i][j].k = "absent" THEN NaN
                             ELSE ToNumeric(b.ts[i][j])
             cast == [i \in 1..Len(b.ts) |->
                         [date |-> ToDatetime(b.ts[i][1]),
                          adj_close |-> Column(i, 2), close |-> Column(i, 3)]]
             HasDate(r) == r.date.k = "ts"
             kept == SelectSeqIdx(cast, HasDate)
             keyed == [i \in 1..Len(kept) |-> [key |-> kept[i].date.v, item |-> kept[i]]]
             sorted == SortByKey(keyed)
         IN [i \in 1..Len(sorted) |-> sorted[i].item]

company_overview(b) ==
    IF b.fmt = "text" THEN PyNone
    ELSE IF b.fmt # "dict" \/ b.keys = {} THEN PyNone
    ELSE IF "Symbol" \in b.keys \/ "Name" \in b.keys
    THEN PyDict("data", b.keys, EmptyQuote, <<>>)
    ELSE PyNone

\* income_statement, balance_sheet, cash_flow, earnings share one body
statement(b) ==
    IF b.fmt = "dict" /\ b.keys # {}
    THEN PyDict("data", b.keys, EmptyQuote, b.reports)
    ELSE PyNone

income_statement(b) == statement(b)

balance_sheet(b) == statement(b)

cash_flow(b) == statement(b)

earnings(b) == statement(b)

\* the JSON document when it is an object with "top_gainers", else None
top_gainers_losers(b) ==
    IF b.fmt = "text" THEN PyNone
    ELSE IF b.fmt # "dict" \/ "top_gainers" \notin b.keys THEN PyNone
    ELSE PyDict("data", b.keys, EmptyQuote, <<>>)

\* a parse that hands on whatever rows the reader found, one column included
listing_status_csv_any_width(b) ==
    IF b.lead \in {"{", "["} THEN NoCsv
    ELSE IF b.csv.rows = 0 THEN NoCsv
    ELSE IF b.ragged THEN NoCsv
    ELSE b.csv

\* the DataFrame of LISTING_STATUS: number of rows and of columns.  The test
\* is on the first character of the stripped text, not on the text being
\* JSON; `c.strip()` on the column None of a ragged text raises and the
\* `except Exception` returns the empty frame.  A frame whose columns are
\* ['{}'] has one column and is empty by the width test already.
listing_status_csv(b) ==
    IF b.lead \in {"{", "["} THEN NoCsv
    ELSE IF b.csv.rows = 0 THEN NoCsv
    ELSE IF b.ragged THEN NoCsv
    ELSE IF b.csv.cols < 2 THEN NoCsv
    ELSE b.csv

Endpoints ==
    {"global_quote", "daily_adjusted", "company_overview", "income_statement",
     "balance_sheet", "cash_flow", "earnings", "listing_status_csv",
     "top_gainers_losers"}

Returned(e, b) ==
    CASE e = "global_quote" -> global_quote(b)
      [] e = "daily_adjusted" -> daily_adjusted(b)
      [] e = "company_overview" -> company_overview(b)
      [] e = "income_statement" -> income_statement(b)
      [] e = "balance_sheet" -> balance_sheet(b)
      [] e = "cash_flow" -> cash_flow(b)
      [] e = "earnings" -> earnings(b)
      [] e = "listing_status_csv" -> listing_status_csv(b)
      [] e = "top_gainers_losers" -> top_gainers_losers(b)

(***************************************************************************)
(* AlphaVantageClient: pacing and retries (_respect_rate_limit, _get)      *)
(***************************************************************************)
DefaultPauseSec == 12

DefaultMaxRetries == 3

BackoffCap == 30

ShortPause == 5

LongPause == 40

StartTime == 1700000000

ClockSpan == 30

MaxClock == StartTime + ClockSpan

MaxLatency == 1

IdleStep == 7

PauseChoices == {ShortPause, DefaultPauseSec, LongPause}

RetryChoices == 0..DefaultMaxRetries

\* the clock after _respect_rate_limit has returned
RespectNoWait(t, last_call_ts, pause_sec) == t

RespectRateLimit(t, last_call_ts, pause_sec) ==
    LET elapsed == t - last_call_ts
    IN IF elapsed < pause_sec THEN t + (pause_sec - elapsed) ELSE t

\* the sleep after the failure of attempt number `attempt`
BackoffUncapped(pause_sec, attempt) == pause_sec * attempt

Backoff(pause_sec, attempt) == Min(pause_sec * attempt, BackoffCap)

QuoteBodies ==
    {NoteBody, EmptyDictBody, ErrorDictBody, JsonListBody, TextBody(0, 0),
     QuoteBody(0, Absent), QuoteBody(10, NumStr(2))}

DailyRows ==
    <<<<DateStr(2), NumStr(102), NumStr(101)>>, <<DateStr(1), NumStr(100), NumStr(99)>>>>

DailyBodies ==
    {NoteBody, EmptyDictBody, JsonListBody, TextBody(0, 0), DailyBody(<<>>),
     DailyBody(DailyRows)}

OverviewBodies == {NoteBody, EmptyDictBody, ErrorDictBody, TextBody(0, 0), OverviewBody}

OneReport == <<[fiscalDateEnding |-> DateStr(1), totalRevenue |-> NumStr(100)]>>

StatementBodies ==
    {NoteBody, EmptyDictBody, TextBody(0, 0), ReportsBody(<<>>), ReportsBody(OneReport)}

CsvBodies ==
    {NoteBody, JsonListBody, TextBody(0, 0), TextBody(0, 7), TextBody(3, 1),
     TextBody(3, 7), LedTextBody("{", 1, 2), LedTextBody("[", 1, 2),
     RaggedTextBody(3, 7)}

MoversBodies == {NoteBody, JsonListBody, TextBody(0, 0), MoversBody}

BodiesFor(e) ==
    CASE e = "global_quote" -> QuoteBodies
      [] e = "daily_adjusted" -> DailyBodies
      [] e = "company_overview" -> OverviewBodies
      [] e = "listing_status_csv" -> CsvBodies
      [] e = "top_gainers_losers" -> MoversBodies
      [] OTHER -> StatementBodies

IdleCall == [pc |-> "idle", endpoint |-> "", attempt |-> 0, sleeps |-> <<>>]

NoOutcome ==
    [kind |-> "none", endpoint |-> "", body |-> BlankBody, attempts |-> 0,
     sleeps |-> <<>>]

NoObs == [sent_ts |-> 0, attempt_gap |-> -1, resp_gap |-> -1, start_elapsed |-> -1]

\* An endpoint calls _get: _respect_rate_limit, then the first attempt is sent
\* (with max_retries = 0 the loop body never runs and _get raises at once).
CallGet(e) ==
    /\ call.pc = "idle"
    /\ now <= MaxClock
    /\ LET t == RespectRateLimit(now, av.last_call_ts, av.pause_sec)
       IN /\ now' = t
          /\ IF av.max_retries = 0
             THEN /\ call' = IdleCall
                  /\ outcome' = [kind |-> "AlphaVantageError", endpoint |-> e,
                                 body |-> BlankBody, attempts |-> 0, sleeps |-> <<>>]
                  /\ obs' = obs
             ELSE /\ call' = [pc |-> "inflight", endpoint |-> e, attempt |-> 1,
                              sleeps |-> <<>>]
                  /\ outcome' = NoOutcome
                  /\ obs' = [obs EXCEPT !.sent_ts = t,
                                        !.attempt_gap =
                                            IF obs.sent_ts = 0 THEN -1 ELSE t - obs.sent_ts,
                                        !.start_elapsed = t - av.last_call_ts]
    /\ UNCHANGED av
    /\ UNCHANGED notFetch

\* The attempt in flight gets an HTTP response after d seconds: _get records
\* the time and returns it; the endpoint turns the body into its result.
AttemptOk(d, b) ==
    /\ call.pc = "inflight"
    /\ b \in BodiesFor(call.endpoint)
    /\ now' = now + d
    /\ av' = [av EXCEPT !.last_call_ts = now + d]
    /\ outcome' = [kind |-> "returned", endpoint |-> call.endpoint, body |-> b,
                   attempts |-> call.attempt, sleeps |-> call.sleeps]
    /\ obs' = [obs EXCEPT !.resp_gap =
                   IF av.last_call_ts = 0 THEN -1 ELSE (now + d) - av.last_call_ts]
    /\ call' = IdleCall
    /\ UNCHANGED notFetch

\* The attempt in flight fails with requests.RequestException after d seconds:
\* _get sleeps the backoff, then sends the next attempt or, after the last one,
\* raises AlphaVantageError.
AttemptFail(d) ==
    /\ call.pc = "inflight"
    /\ LET slept == Backoff(av.pause_sec, call.attempt)
           t == now + d + slept
           sleeps == Append(call.sleeps, slept)
       IN /\ now' = t
          /\ IF call.attempt < av.max_retries
             THEN /\ call' = [call EXCEPT !.attempt = call.attempt + 1,
                                          !.sleeps = sleeps]
                  /\ outcome' = outcome
                  /\ obs' = [obs EXCEPT !.sent_ts = t, !.attempt_gap = t - obs.sent_ts]
             ELSE /\ call' = IdleCall
                  /\ outcome' = [kind |-> "AlphaVantageError",
                                 endpoint |-> call.endpoint, body |-> BlankBody,
                                 attempts |-> call.attempt, sleeps |-> sleeps]
                  /\ obs' = obs
    /\ UNCHANGED av
    /\ UNCHANGED notFetch

\* Time passes between two calls.
Idle ==
    /\ call.pc = "idle"
    /\ now <= MaxClock
    /\ now' = now + IdleStep
    /\ UNCHANGED <<av, call, outcome, obs>>
    /\ UNCHANGED notFetch

(***************************************************************************)
(* data/prices.py and fast_screen_with_quotes (data/universe.py)           *)
(* A provider answer is [err, body, msg]: err = TRUE when _get raised      *)
(* AlphaVantageError (retries exhausted) and msg says whether the text of  *)
(* that exception contains "throttled"; else body is the HTTP body.        *)
(* Floats are whole numbers here; float nan is NaN, None is PyNull.        *)
(* A helper returns [pct, note, exc]; exc names an exception that leaves   *)
(* the helper.                                                             *)
(***************************************************************************)
MaxSymbols == 3

Float(n) == Cell("float", n)

\* the string "nan%"
NanPercentStr == Cell("nanstr", 0)

Answer(err, b) == [err |-> err, body |-> b, msg |-> ""]

\* _get raised; msg is "throttled" when the exception text contains the word
Failure(msg) == [err |-> TRUE, body |-> BlankBody, msg |-> msg]

Helper(pct, note) == [pct |-> pct, note |-> note, exc |-> ""]

HelperRaised(exc) == [pct |-> PyNull, note |-> "", exc |-> exc]

\* ((last - prev) / prev) * 100.0, on closes chosen so that it is whole
PctChange(last, prev) == ((last - prev) * 100) \div prev

get_change_percent_av_daily_adjusted_verbose(a) ==
    IF a.err
    THEN Helper(PyNull, IF a.msg = "throttled" THEN "av: daily_adjusted error: throttled"
                        ELSE "av: daily_adjusted error")
    ELSE LET df == daily_adjusted(a.body)
             col == IF df = <<>> THEN ""
                    ELSE IF df[1].adj_close.k # "absent" THEN "adj_close"
                    ELSE IF df[1].close.k # "absent" THEN "close"
                    ELSE ""
             NotNa(r) == r[col].k # "nan"
             closes == SelectSeqIdx(df, NotNa)
         IN IF df = <<>> THEN Helper(PyNull, "av: daily_adjusted empty")
            ELSE IF col = "" THEN Helper(PyNull, "av: daily_adjusted missing close columns")
            ELSE IF Len(closes) < 2 THEN Helper(PyNull, "av: daily_adjusted not enough data")
            ELSE LET last == closes[Len(closes)][col].v
                     prev == closes[Len(closes) - 1][col].v
                 IN IF prev = 0 THEN Helper(PyNull, "av: prev=0")
                    ELSE Helper(Float(PctChange(last, prev)), "ok:av:daily_adjusted")

\* q['__note'][:80] works on a string (or a list)
Sliceable(c) == c.k \in {"text", "empty", "numstr", "datestr", "nonestr", "nanstr"}

get_change_percent_av_global_quote_verbose(a) ==
    IF a.err
    THEN Helper(PyNull, IF a.msg = "throttled" THEN "av: global_quote error: throttled"
                        ELSE "av: global_quote error")
    ELSE LET q == global_quote(a.body)
             c == q.gq.pct
         IN IF q.type = "None" THEN Helper(PyNull, "av: global_quote empty")
            ELSE IF "__note" \in q.keys
            THEN (IF Sliceable(q.note) THEN Helper(PyNull, "av: throttled")
                  ELSE HelperRaised("TypeError"))
            ELSE IF (c.k = "float" /\ c.v # 0) \/ c.k = "nan"
            THEN HelperRaised("AttributeError")
            ELSE IF c.k = "numstr" THEN Helper(Float(c.v), "ok:av:global_quote")
            ELSE IF c.k = "nanstr" THEN Helper(NaN, "ok:av:global_quote")
            ELSE Helper(PyNull, "av: global_quote missing/invalid change percent")

\* "throttled" in note
Throttled(note) ==
    note \in {"av: throttled", "av: daily_adjusted error: throttled",
              "av: global_quote error: throttled"}

\* out.sort(key=lambda t: t[1], reverse=True) as list.sort does it on a short
\* list: reverse, find the run the list starts with, insert the others by
\* binary search, reverse.  Every comparison with nan is False.
SortDesc(out) ==
    LET n == Len(out)
        Lt(x, y) == x[2].k = "float" /\ y[2].k = "float" /\ x[2].v < y[2].v
        Rev(s) == [k \in 1..Len(s) |-> s[Len(s) + 1 - k]]
        a == Rev(out)
        desc == n >= 2 /\ Lt(a[2], a[1])
        Run[k \in 1..n] ==
            IF k < n /\ (IF desc THEN Lt(a[k + 1], a[k]) ELSE ~Lt(a[k + 1], a[k]))
            THEN Run[k + 1] ELSE k
        run == IF n < 2 THEN n ELSE Run[1]
        start == IF desc THEN Rev(SubSeq(a, 1, run)) \o SubSeq(a, run + 1, n) ELSE a
        RECURSIVE Slot(_, _, _, _)
        Slot(arr, piv, l, r) ==
            IF l >= r THEN l
            ELSE LET p == l + ((r - l) \div 2)
                 IN IF Lt(piv, arr[p + 1]) THEN Slot(arr, piv, l, p)
                    ELSE Slot(arr, piv, p + 1, r)
        RECURSIVE Insert(_, _)
        Insert(arr, s) ==
            IF s > n THEN arr
            ELSE LET l == Slot(arr, arr[s], 0, s - 1)
                 IN Insert(SubSeq(arr, 1, l) \o <<arr[s]>> \o SubSeq(arr, l + 1, s - 1)
                               \o SubSeq(arr, s + 1, n), s + 1)
    IN IF n < 2 THEN out ELSE Rev(Insert(start, run + 1))

FirstStage(price_source) == IF price_source = "yfinance" THEN "yf" ELSE "daily"

\* end of one loop iteration with pct_val = pct: append, then the next symbol
\* or, after the last one, sort and return
AfterSymbol(s, pct) ==
    LET out2 == IF pct.k # "null" THEN Append(s.out, <<s.i, pct>>) ELSE s.out
    IN IF s.i < s.n
       THEN [s EXCEPT !.out = out2, !.i = s.i + 1, !.stage = FirstStage(s.price_source)]
       ELSE [s EXCEPT !.out = SortDesc(out2), !.stage = "done",
                      !.result = SortDesc(out2)]

\* break out of the loop on a throttled note, then sort and return
BreakThrottled(s) ==
    [s EXCEPT !.throttle_hits = s.throttle_hits + 1, !.out = SortDesc(s.out),
              !.stage = "done", !.result = SortDesc(s.out)]

\* an exception left a price helper and, with it, fast_screen_with_quotes
Raised(s) == [s EXCEPT !.stage = "raised"]

DailyRowsDown ==
    <<<<DateStr(2), NumStr(95), NumStr(96)>>, <<DateStr(1), NumStr(100), NumStr(101)>>>>

\* rows that carry "4. close" and no "5. adjusted close"
DailyRowsCloseOnly ==
    <<<<DateStr(2), Absent, NumStr(102)>>, <<DateStr(1), Absent, NumStr(100)>>>>

\* rows that carry neither of the two close keys
DailyRowsNoClose == <<<<DateStr(2), Absent, Absent>>, <<DateStr(1), Absent, Absent>>>>

Failures == {Failure(""), Failure("throttled")}

ScreenDailyAnswers ==
    {Answer(FALSE, b) :
         b \in DailyBodies \cup {DailyBody(DailyRowsDown), DailyBody(DailyRowsCloseOnly),
                                 DailyBody(DailyRowsNoClose)}}
        \cup Failures

ScreenQuoteAnswers ==
    {Answer(FALSE, b) :
         b \in QuoteBodies
                \cup {QuoteBody(10, NumStr(7)), QuoteBody(10, NanPercentStr),
                      QuoteBody(10, Float(2)), QuoteBody(10, Float(0)),
                      QuoteBody(10, NaN), QuoteBody(10, PyNull),
                      NoteBodyOf(PyNull), NoteBodyOf(Float(5))}}
        \cup Failures

YfAnswers == {PyNull, Float(3)}

\* nothing called yet: the calls made, the symbol of the first throttle Note,
\* the calls whose retries were exhausted, an exception that left main, and
\* the price source asked last with the symbol and the value it yielded
NoQuery == [i |-> 0, source |-> "", pct |-> PyNull]

NoScreenLog ==
    [calls |-> {}, throttled_at |-> 0, failed |-> {}, raised |-> FALSE, last |-> NoQuery]

Logged(a, endpoint, source, pct) ==
    [scr_log EXCEPT !.last = [i |-> scr.i, source |-> source, pct |-> pct],
                    !.calls = scr_log.calls \cup {<<scr.i, endpoint>>},
                    !.failed = IF a.err THEN scr_log.failed \cup {<<scr.i, endpoint>>}
                               ELSE scr_log.failed,
                    !.throttled_at =
                        IF scr_log.throttled_at = 0 /\ ~a.err /\ IsNote(a.body)
                        THEN scr.i ELSE scr_log.throttled_at]

\* 1) Yahoo first (if requested)
ScreenYf(r) ==
    /\ scr.stage = "yf"
    /\ scr' = IF r.k # "null" THEN AfterSymbol(scr, r) ELSE [scr EXCEPT !.stage = "daily"]
    /\ scr_log' = [scr_log EXCEPT !.last = [i |-> scr.i, source |-> "yf", pct |-> r]]
    /\ UNCHANGED notScreen

\* nested conditionals gone wrong: the daily value is dropped and the quote asked
ScreenDailyThenQuote(a) ==
    /\ scr.stage = "daily"
    /\ LET r == get_change_percent_av_daily_adjusted_verbose(a)
       IN scr' = IF Throttled(r.note) THEN BreakThrottled(scr)
                 ELSE [scr EXCEPT !.stage = "quote"]
    /\ scr_log' = Logged(a, "daily_adjusted", "daily",
                         get_change_percent_av_daily_adjusted_verbose(a).pct)
    /\ UNCHANGED notScreen

\* 2) AV: TIME_SERIES_DAILY_ADJUSTED
ScreenDaily(a) ==
    /\ scr.stage = "daily"
    /\ LET r == get_change_percent_av_daily_adjusted_verbose(a)
       IN scr' = IF r.pct.k # "null" THEN AfterSymbol(scr, r.pct)
                 ELSE IF Throttled(r.note) THEN BreakThrottled(scr)
                 ELSE [scr EXCEPT !.stage = "quote"]
    /\ scr_log' = Logged(a, "daily_adjusted", "daily",
                         get_change_percent_av_daily_adjusted_verbose(a).pct)
    /\ UNCHANGED notScreen

\* 3) AV: GLOBAL_QUOTE (last resort)
ScreenQuote(a) ==
    /\ scr.stage = "quote"
    /\ \E r \in {get_change_percent_av_global_quote_verbose(a)} :
           /\ scr' = IF r.exc # "" THEN Raised(scr)
                     ELSE IF r.pct.k # "null" THEN AfterSymbol(scr, r.pct)
                     ELSE IF Throttled(r.note) THEN BreakThrottled(scr)
                     ELSE AfterSymbol(scr, PyNull)
           /\ scr_log' = [Logged(a, "global_quote", "quote", r.pct)
                              EXCEPT !.raised = r.exc # ""]
    /\ UNCHANGED notScreen


(***************************************************************************)
(* main (main_find50.py): discover_universe_for_sectors, then              *)
(* fast_screen_with_quotes on the candidates.  One sector; its n           *)
(* candidates come from the listing or from LOCAL_SEEDS.                   *)
(***************************************************************************)
ListingAnswers == {Answer(FALSE, b) : b \in CsvBodies} \cup {Failure("")}

\* discover_universe_for_sectors: av.listing_status_csv is called outside any
\* try, so AlphaVantageError leaves discover_universe_for_sectors and main
Discover(a) ==
    /\ scr.stage = "discover"
    /\ scr' = IF a.err THEN [scr EXCEPT !.stage = "raised"]
              ELSE IF scr.n = 0 THEN [scr EXCEPT !.stage = "done"]
              ELSE [scr EXCEPT !.i = 1, !.stage = FirstStage(scr.price_source)]
    /\ scr_log' = [scr_log EXCEPT !.raised = a.err,
                                  !.failed = IF a.err THEN {<<0, "listing_status_csv">>}
                                             ELSE {}]
    /\ UNCHANGED notScreen
(***************************************************************************)
(* data/fundamentals.py: normalisation of the statement payloads           *)
(* A vendor record is a function from its field names to cells.  A         *)
(* DataFrame is its set of columns and its rows, each row a function from  *)
(* the columns to cells (NaN where the record had no such field).          *)
(***************************************************************************)
\* The dtype pandas infers for a column when it builds a frame
\* (lib.maybe_convert_objects): float64 when the column holds nothing but
\* floats and None and at least one float (the NaN of a missing cell is one);
\* every other column here is object.  kinds is the set of cell kinds in it.
Float64(kinds) == kinds \subseteq {"null", "nan", "float"} /\ kinds \cap {"nan", "float"} # {}

\* a cell as the column stores it: None becomes NaN in a float64 column
Stored(c, kinds) == IF c.k = "null" /\ Float64(kinds) THEN NaN ELSE c

\* pd.DataFrame(arr) for a list of dicts: a record without the key of a
\* column holds NaN there
DataFrame(arr) ==
    LET cols == UNION {DOMAIN arr[i] : i \in 1..Len(arr)}
        Raw(i, c) == IF c \in DOMAIN arr[i] THEN arr[i][c] ELSE NaN
        Kinds(c) == {Raw(i, c).k : i \in 1..Len(arr)}
    IN [columns |-> cols,
        rows |-> [i \in 1..Len(arr) |-> [c \in cols |-> Stored(Raw(i, c), Kinds(c))]]]

NoFrame == [columns |-> {}, rows |-> <<>>]

\* df.empty
DfEmpty(df) == df.rows = <<>> \/ df.columns = {}

\* df["fiscalDateEnding"] = pd.to_datetime(..., errors="coerce");
\* df.dropna(subset=["fiscalDateEnding"]).sort_values("fiscalDateEnding")
SortedByDate(df) ==
    LET cast == [i \in 1..Len(df.rows) |->
                    [df.rows[i] EXCEPT !["fiscalDateEnding"] = ToDatetime(@)]]
        HasDate(r) == r["fiscalDateEnding"].k = "ts"
        kept == SelectSeqIdx(cast, HasDate)
        keyed == [i \in 1..Len(kept) |->
                     [key |-> kept[i]["fiscalDateEnding"].v, item |-> kept[i]]]
        sorted == SortByKey(keyed)
    IN [columns |-> df.columns, rows |-> [i \in 1..Len(sorted) |-> sorted[i].item]]

\* o.get(key) or [], where o is an endpoint result or {} when it was None
RecordsUnder(o, key) == IF o.type = "dict" /\ key \in o.keys THEN o.reports ELSE <<>>

to_df(o, key) ==
    LET df == DataFrame(RecordsUnder(o, key))
    IN IF ~DfEmpty(df) /\ "fiscalDateEnding" \in df.columns
       THEN SortedByDate(df)
       ELSE df

\* the annualEarnings frame: [raised |-> TRUE] stands for the KeyError of
\* ea["fiscalDateEnding"] on a frame without that column
earnings_frame(o) ==
    LET ea == DataFrame(RecordsUnder(o, "annualEarnings"))
    IN IF DfEmpty(ea) THEN [raised |-> FALSE, df |-> ea]
       ELSE IF "fiscalDateEnding" \notin ea.columns THEN [raised |-> TRUE, df |-> ea]
       ELSE [raised |-> FALSE, df |-> SortedByDate(ea)]

Fundamentals(ov, inc, bal, cas, ea) ==
    [overview |-> ov, income_annual |-> inc, balance_annual |-> bal,
     cash_annual |-> cas, earnings_annual |-> ea]

NoBundle == Fundamentals({}, NoFrame, NoFrame, NoFrame, NoFrame)

FrameNames == {"income_annual", "balance_annual", "cash_annual", "earnings_annual"}

\* a variant of the network half that returns None as soon as the overview is
\* absent, whatever the series hold
FetchNetworkByOverview(a) ==
    LET order == <<a.ov, a.inc, a.bal, a.cas, a.ern>>
        failed == {i \in 1..5 : order[i].err}
        firstFail == CHOOSE i \in failed : \A j \in failed : i <= j
        r_ov == company_overview(a.ov.body)
        ov == IF r_ov.type = "dict" THEN r_ov.keys ELSE {}
        income_annual == to_df(income_statement(a.inc.body), "annualReports")
        balance_annual == to_df(balance_sheet(a.bal.body), "annualReports")
        cash_annual == to_df(cash_flow(a.cas.body), "annualReports")
        ea == earnings_frame(earnings(a.ern.body))
    IN IF failed # {}
       THEN [kind |-> "raised", exc |-> "AlphaVantageError", f |-> NoBundle,
             net_calls |-> firstFail]
       ELSE IF ea.raised
       THEN [kind |-> "raised", exc |-> "KeyError", f |-> NoBundle, net_calls |-> 5]
       ELSE IF ov = {}
       THEN [kind |-> "None", exc |-> "", f |-> NoBundle, net_calls |-> 5]
       ELSE [kind |-> "bundle", exc |-> "",
             f |-> Fundamentals(ov, income_annual, balance_annual, cash_annual, ea.df),
             net_calls |-> 5]

\* The network half of fetch_fundamentals (lines 81-112): the five endpoint
\* calls on the answers a = [ov, inc, bal, cas, ern], then the normalisation.
\* An answer with err = TRUE is _get raising AlphaVantageError.
FetchNetwork(a) ==
    LET order == <<a.ov, a.inc, a.bal, a.cas, a.ern>>
        failed == {i \in 1..5 : order[i].err}
        firstFail == CHOOSE i \in failed : \A j \in failed : i <= j
        r_ov == company_overview(a.ov.body)
        ov == IF r_ov.type = "dict" THEN r_ov.keys ELSE {}
        income_annual == to_df(income_statement(a.inc.body), "annualReports")
        balance_annual == to_df(balance_sheet(a.bal.body), "annualReports")
        cash_annual == to_df(cash_flow(a.cas.body), "annualReports")
        ea == earnings_frame(earnings(a.ern.body))
    IN IF failed # {}
       THEN [kind |-> "raised", exc |-> "AlphaVantageError", f |-> NoBundle,
             net_calls |-> firstFail]
       ELSE IF ea.raised
       THEN [kind |-> "raised", exc |-> "KeyError", f |-> NoBundle, net_calls |-> 5]
       ELSE IF ov = {} /\ DfEmpty(income_annual) /\ DfEmpty(balance_annual)
               /\ DfEmpty(cash_annual) /\ DfEmpty(ea.df)
       THEN [kind |-> "None", exc |-> "", f |-> NoBundle, net_calls |-> 5]
       ELSE [kind |-> "bundle", exc |-> "",
             f |-> Fundamentals(ov, income_annual, balance_annual, cash_annual, ea.df),
             net_calls |-> 5]

(***************************************************************************)
(* The two on-disk caches: fund_<symbol>.json (data/fundamentals.py) and   *)
(* overview_<symbol>.json (data/universe.py), for one symbol.              *)
(* A payload is the value stored under "data":                             *)
(*   kind   "dict" | "list" (a non-empty JSON list) | "absent" (no value)  *)
(*   plain  FALSE when the dict holds an object json cannot encode         *)
(*   keys   the top-level keys of the dict                                 *)
(*   overview, frames   the values under "overview" and under the four     *)
(*          frame names, each frame as DataFrame.to_dict(orient="list")    *)
(* A file is [kind, ts, data]: kind "missing", "unreadable" (read raises   *)
(* OSError), "notjson" (also a truncated or partly written file), "list"   *)
(* (JSON that is no object) or "object" with its "_ts" cell (Absent when   *)
(* the key is missing) and its "data" payload.                             *)
(***************************************************************************)
TTL == 14 * 24 * 3600

CACHE_TTL_SEC == 7 * 24 * 3600

\* DataFrame.to_dict(orient="list"): one list of cells per column
ToDictList(df) ==
    [columns |-> df.columns,
     lists |-> [c \in df.columns |-> [i \in 1..Len(df.rows) |-> df.rows[i][c]]]]

\* pd.DataFrame(d) for a dict of equally long lists, each column with the
\* dtype inferred for its list
FromDictList(d) ==
    LET n == IF d.columns = {} THEN 0
             ELSE Len(d.lists[CHOOSE c \in d.columns : TRUE])
        Kinds(c) == {d.lists[c][i].k : i \in 1..n}
    IN [columns |-> d.columns,
        rows |-> [i \in 1..n |-> [c \in d.columns |-> Stored(d.lists[c][i], Kinds(c))]]]

NoDictList == [columns |-> {}, lists |-> <<>>]

NoFrames == [n \in FrameNames |-> NoDictList]

NoPayload ==
    [kind |-> "absent", plain |-> TRUE, keys |-> {}, overview |-> {},
     frames |-> NoFrames]

\* the dict fetch_fundamentals hands to _write_cache (lines 116-122)
PayloadOf(f) ==
    [kind |-> "dict", plain |-> TRUE, keys |-> {"overview"} \cup FrameNames,
     overview |-> f.overview,
     frames |-> [n \in FrameNames |-> ToDictList(f[n])]]

\* an overview dict as handed to _overview_cache_put
OverviewPayload(keys, plain) ==
    [kind |-> "dict", plain |-> plain, keys |-> keys, overview |-> keys,
     frames |-> NoFrames]

\* json.dumps succeeds: no Timestamp / NaT cell and no foreign object inside
JsonSerializable(p) ==
    /\ p.plain
    /\ \A n \in FrameNames : \A c \in p.frames[n].columns :
           \A i \in 1..Len(p.frames[n].lists[c]) :
               p.frames[n].lists[c][i].k \notin {"ts", "nat"}

MissingFile == [kind |-> "missing", ts |-> Absent, data |-> NoPayload]

TruncatedFile == [kind |-> "notjson", ts |-> Absent, data |-> NoPayload]

Entry(t, p) == [kind |-> "object", ts |-> Float(t), data |-> p]

\* time.time() - obj.get("_ts", 0) <= _TTL
FundFresh(age) == age <= TTL

\* time.time() - obj.get("_ts", 0) < _CACHE_TTL_SEC
OverviewFresh(age) == age < CACHE_TTL_SEC

\* _read_cache(sym) at time t; NoPayload stands for None
read_cache(file, t) ==
    IF file.kind # "object" THEN NoPayload
    ELSE IF file.ts.k \notin {"float", "absent"} THEN NoPayload
    ELSE IF FundFresh(t - (IF file.ts.k = "float" THEN file.ts.v ELSE 0))
    THEN file.data
    ELSE NoPayload

\* _overview_cache_get(symbol) at time t
overview_cache_get(file, t) ==
    IF file.kind # "object" THEN NoPayload
    ELSE IF file.ts.k \notin {"float", "absent"} THEN NoPayload
    ELSE IF OverviewFresh(t - (IF file.ts.k = "float" THEN file.ts.v ELSE 0))
    THEN file.data
    ELSE NoPayload

\* the file after _write_cache: json.dumps runs before the file is opened
write_cache(file, t, p, io) ==
    IF ~JsonSerializable(p) THEN file
    ELSE IF io = "open_fails" THEN file
    ELSE IF io = "write_fails" THEN TruncatedFile
    ELSE Entry(t, p)

\* the file after _overview_cache_put: the file is opened (truncated) first,
\* then json.dump writes into it
overview_cache_put(file, t, p, io) ==
    IF io = "open_fails" THEN file
    ELSE IF ~JsonSerializable(p) \/ io = "write_fails" THEN TruncatedFile
    ELSE Entry(t, p)

\* `if c:` on what _read_cache returned
Truthy(c) == c.kind = "list" \/ (c.kind = "dict" /\ c.keys # {})

\* the cache-hit branch can build the bundle (no KeyError / TypeError)
Rebuildable(c) == c.kind = "dict" /\ ({"overview"} \cup FrameNames) \subseteq c.keys

Rebuilt(c) ==
    Fundamentals(c.overview, FromDictList(c.frames["income_annual"]),
                 FromDictList(c.frames["balance_annual"]),
                 FromDictList(c.frames["cash_annual"]),
                 FromDictList(c.frames["earnings_annual"]))

\* the cache file as the call finds it when it reads it and, after the five
\* provider calls, when it writes it
Seen(read, write) == [read |-> read, write |-> write]

\* time.time() inside _read_cache and inside _write_cache
At(read, write) == [read |-> read, write |-> write]

\* a fetch that looks into the cache whatever use_cache says
fetch_fundamentals_reading(seen, at, use_cache, a, io) ==
    LET c == read_cache(seen.read, at.read)
        net == FetchNetwork(a)
    IN IF Truthy(c) /\ Rebuildable(c)
       THEN [res |-> [kind |-> "bundle", exc |-> "", f |-> Rebuilt(c), net_calls |-> 0],
             file |-> seen.write, read |-> TRUE, wrote |-> FALSE]
       ELSE [res |-> net,
             file |-> IF use_cache /\ net.kind = "bundle"
                      THEN write_cache(seen.write, at.write, PayloadOf(net.f), io)
                      ELSE seen.write,
             read |-> TRUE, wrote |-> use_cache /\ net.kind = "bundle"]

\* a fetch that stores an entry also when the payload is absent
fetch_fundamentals_caching_none(seen, at, use_cache, a, io) ==
    LET c == read_cache(seen.read, at.read)
        net == FetchNetwork(a)
    IN IF use_cache /\ Truthy(c) /\ Rebuildable(c)
       THEN [res |-> [kind |-> "bundle", exc |-> "", f |-> Rebuilt(c), net_calls |-> 0],
             file |-> seen.write, read |-> use_cache, wrote |-> FALSE]
       ELSE [res |-> net,
             file |-> IF use_cache /\ net.kind \in {"bundle", "None"}
                      THEN write_cache(seen.write, at.write, PayloadOf(net.f), io)
                      ELSE seen.write,
             read |-> use_cache, wrote |-> use_cache /\ net.kind \in {"bundle", "None"}]

\* fetch_fundamentals(av, symbol, use_cache) with the provider answers a and
\* the disk behaving as io: the cache is read from the file seen.read at time
\* at.read; the entry is written at time at.write over the file seen.write.
\* The result [kind, exc, f, net_calls], the cache file afterwards, and
\* whether the call ran _read_cache (read) and _write_cache (wrote).
fetch_fundamentals(seen, at, use_cache, a, io) ==
    LET c == read_cache(seen.read, at.read)
        net == FetchNetwork(a)
    IN IF use_cache /\ Truthy(c) /\ Rebuildable(c)
       THEN [res |-> [kind |-> "bundle", exc |-> "", f |-> Rebuilt(c), net_calls |-> 0],
             file |-> seen.write, read |-> use_cache, wrote |-> FALSE]
       ELSE [res |-> net,
             file |-> IF use_cache /\ net.kind = "bundle"
                      THEN write_cache(seen.write, at.write, PayloadOf(net.f), io)
                      ELSE seen.write,
             read |-> use_cache, wrote |-> use_cache /\ net.kind = "bundle"]

(***************************************************************************)
(* History of the cache traffic and the cache actions                      *)
(***************************************************************************)
MaxWeeks == 2

MaxSecondTicks == 1

NoRead ==
    [cache |-> "", wellformed |-> FALSE, unreadable |-> FALSE, age |-> 0, hit |-> FALSE]

NoWrite == [cache |-> "", failed |-> FALSE, lost |-> FALSE]

NoNet == [valid |-> FALSE, ts |-> 0, f |-> NoBundle]

\* the fetch_fundamentals call in progress: what it was called with and the
\* file and the time of its cache read
NoRun == [pc |-> "idle", use_cache |-> FALSE, file |-> MissingFile, t |-> 0]

\* the client handed to fetch_fundamentals: one that does not pace, the
\* default client before its first call (_last_call_ts = 0.0) and the default
\* client straight after a response of an earlier fetch (reused)
Clients ==
    {[pause_sec |-> 0, max_retries |-> DefaultMaxRetries, reused |-> FALSE],
     [pause_sec |-> DefaultPauseSec, max_retries |-> DefaultMaxRetries, reused |-> FALSE],
     [pause_sec |-> DefaultPauseSec, max_retries |-> DefaultMaxRetries, reused |-> TRUE]}

\* the sleeps of a call all of whose attempts fail
RECURSIVE BackoffTotal(_, _)
BackoffTotal(pause_sec, attempts) ==
    IF attempts = 0 THEN 0
    ELSE BackoffTotal(pause_sec, attempts - 1) + Backoff(pause_sec, attempts)

\* the clock when the av.* calls i.. of a fetch are over, on a network that
\* answers at once: every call waits in _respect_rate_limit, a call that is
\* answered stamps _last_call_ts, a call whose attempts all fail sleeps after
\* each of them and raises, which ends the fetch
RECURSIVE CallsEnd(_, _, _, _, _)
CallsEnd(client, order, i, t, last_call_ts) ==
    IF i > Len(order) THEN t
    ELSE LET sent == RespectRateLimit(t, last_call_ts, client.pause_sec)
         IN IF order[i].err
            THEN sent + BackoffTotal(client.pause_sec, client.max_retries)
            ELSE CallsEnd(client, order, i + 1, sent, sent)

\* seconds the provider calls of a fetch that starts them at time t take
CallSpan(client, a, t) ==
    CallsEnd(client, <<a.ov, a.inc, a.bal, a.cas, a.ern>>, 1, t,
             IF client.reused THEN t ELSE 0) - t

NoResult ==
    [kind |-> "none", exc |-> "", net_calls |-> 0, use_cache |-> FALSE,
     pre |-> FALSE, stale |-> FALSE, same |-> FALSE, absent |-> FALSE,
     undated |-> FALSE, as_cached |-> FALSE]

\* the records of a statement body that its frame keeps: all of them when
\* none carries fiscalDateEnding, else those whose date parses
KeptRecords(b, key) ==
    IF b.fmt # "dict" \/ key \notin b.keys THEN {}
    ELSE IF \A i \in 1..Len(b.reports) : "fiscalDateEnding" \notin DOMAIN b.reports[i]
    THEN 1..Len(b.reports)
    ELSE {i \in 1..Len(b.reports) :
              /\ "fiscalDateEnding" \in DOMAIN b.reports[i]
              /\ b.reports[i]["fiscalDateEnding"].k = "datestr"}

\* the provider sent no overview
NoOverview(a) == ~(a.ov.body.fmt = "dict" /\ ({"Symbol", "Name"} \cap a.ov.body.keys) # {})

\* the frame built from a statement body is empty (df.empty): it keeps no
\* record, or its records carry no field at all and it has no column
SeriesEmpty(b, key) ==
    \/ KeptRecords(b, key) = {}
    \/ \A i \in 1..Len(b.reports) : DOMAIN b.reports[i] = {}

\* the answers hold no overview and each of the four frames is empty
PayloadAbsent(a) ==
    /\ NoOverview(a)
    /\ SeriesEmpty(a.inc.body, "annualReports")
    /\ SeriesEmpty(a.bal.body, "annualReports")
    /\ SeriesEmpty(a.cas.body, "annualReports")
    /\ SeriesEmpty(a.ern.body, "annualEarnings")

\* the records of a statement body with a parseable period-end date
DatedRecords(b, key) ==
    IF b.fmt # "dict" \/ key \notin b.keys THEN {}
    ELSE {i \in 1..Len(b.reports) :
              /\ "fiscalDateEnding" \in DOMAIN b.reports[i]
              /\ b.reports[i]["fiscalDateEnding"].k = "datestr"}

\* the answers hold no overview and no record with a parseable period-end
\* date in any of the four series
NothingDated(a) ==
    /\ NoOverview(a)
    /\ DatedRecords(a.inc.body, "annualReports") = {}
    /\ DatedRecords(a.bal.body, "annualReports") = {}
    /\ DatedRecords(a.cas.body, "annualReports") = {}
    /\ DatedRecords(a.ern.body, "annualEarnings") = {}

\* an entry as the program writes it: an object with a numeric _ts and a dict
WellFormed(file) ==
    file.kind = "object" /\ file.ts.k = "float" /\ file.data.kind = "dict"

ReadOf(cache, file, t, got) ==
    [cache |-> cache, wellformed |-> WellFormed(file),
     unreadable |-> file.kind # "object" \/ file.ts.k \notin {"float", "absent"},
     age |-> IF WellFormed(file) THEN t - file.ts.v ELSE 0,
     hit |-> got.kind # "absent"]

WriteOf(cache, before, after, p, io) ==
    [cache |-> cache, failed |-> ~JsonSerializable(p) \/ io # "ok",
     lost |-> WellFormed(before) /\ after # before]

IoOutcomes == {"ok", "open_fails", "write_fails"}

DatedReport == [fiscalDateEnding |-> DateStr(2), totalRevenue |-> NumStr(120)]

OlderReport == [fiscalDateEnding |-> DateStr(1), totalRevenue |-> NumStr(100)]

UndatedReport == [totalRevenue |-> NumStr(100)]

\* a record without any field: {}
FieldlessReport == <<>>

\* a record whose period-end date does not parse
MisdatedReport == [fiscalDateEnding |-> TextStr, totalRevenue |-> NumStr(100)]

DatedEarnings == [fiscalDateEnding |-> DateStr(2), reportedEPS |-> NumStr(3)]

\* every endpoint answers with the same throttled or empty body
SilentAnswers ==
    {[ov |-> Answer(FALSE, b), inc |-> Answer(FALSE, b), bal |-> Answer(FALSE, b),
      cas |-> Answer(FALSE, b), ern |-> Answer(FALSE, b)] :
        b \in {NoteBody, EmptyDictBody, TextBody(0, 0)}}

\* answers whose balance sheet and cash flow hold no record
CacheAnswer(ov, inc, ern) ==
    [ov |-> ov, inc |-> inc, bal |-> Answer(FALSE, ReportsBody(<<>>)),
     cas |-> Answer(FALSE, ReportsBody(<<>>)), ern |-> ern]

\* provider answers offered to fetch_fundamentals in the cache runs: an
\* overview alone, with dated or undated income records, with dated earnings;
\* no overview but income records that are dated, undated, without any field
\* or with a date that does not parse; no overview and an earnings record
\* without any field; a first call whose retries are exhausted; every endpoint
\* throttled or empty
CacheAnswers ==
    {CacheAnswer(Answer(FALSE, OverviewBody), Answer(FALSE, ReportsBody(inc)),
                 Answer(FALSE, EarningsBody(<<>>))) :
         inc \in {<<>>, <<DatedReport, OlderReport>>, <<UndatedReport>>}}
        \cup {CacheAnswer(Answer(FALSE, OverviewBody), Answer(FALSE, ReportsBody(<<>>)),
                          Answer(FALSE, EarningsBody(<<DatedEarnings>>)))}
        \cup {CacheAnswer(Answer(FALSE, EmptyDictBody), Answer(FALSE, ReportsBody(inc)),
                          Answer(FALSE, EarningsBody(<<>>))) :
                  inc \in {<<DatedReport>>, <<UndatedReport>>, <<MisdatedReport>>,
                           <<FieldlessReport>>}}
        \cup {CacheAnswer(Answer(FALSE, EmptyDictBody), Answer(FALSE, ReportsBody(<<>>)),
                          Answer(FALSE, EarningsBody(<<FieldlessReport>>)))}
        \cup {CacheAnswer(Failure(""), Answer(FALSE, ReportsBody(<<>>)),
                          Answer(FALSE, EarningsBody(<<>>)))}
        \cup SilentAnswers

\* the history after a call that started as `run` ended with r, having written
\* (or not) at time t over the file `before`
Completed(r, run, before, t, a, io) ==
    LET wrote == r.wrote
    IN [rd |-> IF r.read
               THEN ReadOf("fund", run.file, run.t, read_cache(run.file, run.t))
               ELSE NoRead,
        wr |-> IF wrote THEN WriteOf("fund", before, r.file, PayloadOf(r.res.f), io)
               ELSE NoWrite,
        res |-> [kind |-> r.res.kind, exc |-> r.res.exc,
                 net_calls |-> r.res.net_calls, use_cache |-> run.use_cache,
                 pre |-> run.use_cache /\ fnd.net.valid /\ run.t - fnd.net.ts <= TTL,
                 stale |-> run.use_cache /\ fnd.net.valid /\ run.t - fnd.net.ts > TTL,
                 same |-> fnd.net.valid /\ r.res.kind = "bundle" /\ r.res.f = fnd.net.f,
                 absent |-> PayloadAbsent(a),
                 undated |-> NothingDated(a) /\ ~PayloadAbsent(a),
                 as_cached |->
                     r.res = fetch_fundamentals(Seen(MissingFile, MissingFile), At(t, t),
                                                TRUE, a, io).res],
        net |-> IF wrote /\ io = "ok" THEN [valid |-> TRUE, ts |-> t, f |-> r.res.f]
                ELSE IF r.file # before THEN NoNet
                ELSE fnd.net,
        run |-> NoRun]

\* fetch_fundamentals(av, symbol, use_cache) is called: the cache read.  On a
\* hit the call returns in this step; else the provider calls begin.
FetchStart(use_cache) ==
    /\ fnd.run.pc = "idle"
    /\ \E run \in {[pc |-> "calling", use_cache |-> use_cache, file |-> fund_file,
                     t |-> now]},
          a \in {CHOOSE x \in SilentAnswers : TRUE} :
           \E r \in {fetch_fundamentals(Seen(fund_file, fund_file), At(now, now),
                                        use_cache, a, "ok")} :
               fnd' = IF r.res.net_calls = 0
                      THEN Completed(r, run, fund_file, now, a, "ok")
                      ELSE [fnd EXCEPT !.run = run, !.wr = NoWrite, !.res = NoResult,
                                       !.rd = IF r.read
                                              THEN ReadOf("fund", fund_file, now,
                                                          read_cache(fund_file, now))
                                              ELSE NoRead]
    /\ UNCHANGED <<now, fund_file, ov_file>>
    /\ UNCHANGED notCache

\* the provider calls of the fetch in progress, made with client and answered
\* with a; the call normalises, writes the cache entry (the disk behaving as
\* io) and returns.  What another process did to the file during the calls
\* is what the write finds: the calls neither read nor write the file.
FetchFinish(a, io, client) ==
    /\ fnd.run.pc = "calling"
    /\ \E span \in {CallSpan(client, a, now)} :
           /\ span > 0 => (now - StartTime) % CACHE_TTL_SEC < MaxSecondTicks
           /\ \E r \in {fetch_fundamentals(Seen(fnd.run.file, fund_file),
                                           At(fnd.run.t, now + span), fnd.run.use_cache,
                                           a, io)} :
                  /\ io # "ok" => r.wrote
                  /\ fund_file' = r.file
                  /\ fnd' = Completed(r, fnd.run, fund_file, now + span, a, io)
           /\ now' = now + span
    /\ UNCHANGED ov_file
    /\ UNCHANGED notCache

OverviewPayloads ==
    {OverviewPayload({"Symbol", "Name"}, TRUE), OverviewPayload({"Symbol"}, TRUE),
     OverviewPayload({"Symbol", "Name"}, FALSE)}

\* _overview_cache_put(symbol, data)
OverviewPut(p, io) ==
    LET after == overview_cache_put(ov_file, now, p, io)
    IN /\ ov_file' = after
       /\ fnd' = [fnd EXCEPT !.rd = NoRead, !.res = NoResult,
                       !.wr = WriteOf("overview", ov_file, after, p, io)]
       /\ UNCHANGED <<now, fund_file>>
       /\ UNCHANGED notCache

\* _overview_cache_get(symbol)
OverviewGet ==
    /\ fnd' = [fnd EXCEPT !.wr = NoWrite, !.res = NoResult,
                   !.rd = ReadOf("overview", ov_file, now,
                                 overview_cache_get(ov_file, now))]
    /\ UNCHANGED <<now, fund_file, ov_file>>
    /\ UNCHANGED notCache

\* what the environment can leave in a cache file
DamagedFiles ==
    {MissingFile,
     [kind |-> "unreadable", ts |-> Absent, data |-> NoPayload],
     TruncatedFile,
     [kind |-> "list", ts |-> Absent, data |-> NoPayload],
     [kind |-> "object", ts |-> Absent, data |-> OverviewPayload({"Symbol"}, TRUE)],
     [kind |-> "object", ts |-> TextStr, data |-> OverviewPayload({"Symbol"}, TRUE)],
     [kind |-> "object", ts |-> Float(StartTime), data |-> NoPayload],
     [kind |-> "object", ts |-> Float(StartTime),
      data |-> [NoPayload EXCEPT !.kind = "list"]],
     [kind |-> "object", ts |-> Float(StartTime),
      data |-> OverviewPayload({"overview", "income_annual"}, TRUE)]}

\* something other than the program rewrites or removes a cache file
Damage(which, file) ==
    /\ file \in DamagedFiles
    /\ IF which = "fund"
       THEN fund_file' = file /\ ov_file' = ov_file
                /\ fnd' = [rd |-> NoRead, wr |-> NoWrite, res |-> NoResult, net |-> NoNet,
                           run |-> fnd.run]
       ELSE ov_file' = file /\ fund_file' = fund_file
                /\ fnd' = [fnd EXCEPT !.rd = NoRead, !.wr = NoWrite, !.res = NoResult]
    /\ UNCHANGED now
    /\ UNCHANGED notCache

\* time passes, a second or a week; the record of the last operation is cleared
Tick(dt) ==
    /\ dt = 1 => (now - StartTime) % CACHE_TTL_SEC < MaxSecondTicks
    /\ now + dt <= StartTime + MaxWeeks * CACHE_TTL_SEC + MaxSecondTicks
    /\ now' = now + dt
    /\ fnd' = [fnd EXCEPT !.rd = NoRead, !.wr = NoWrite, !.res = NoResult]
    /\ UNCHANGED <<fund_file, ov_file>>
    /\ UNCHANGED notCache

(***************************************************************************)
(* data/fundamentals.py: safe_float and compute_metrics                    *)
(* A Python float-or-None is [k, n, d, root]:                              *)
(*   k = "none"     None                                                   *)
(*   k = "nan"      float NaN                                              *)
(*   k = "num"      the number n/d in lowest terms, d > 0                  *)
(*   k = "cagr"     the number (n/d) ** (1/root) - 1, root > 1             *)
(*   k = "complex"  the complex result of a negative base under a          *)
(*                  fractional exponent                                    *)
(* The overview figures of compute_metrics (lines 136-150) and the price   *)
(* lines 227-230 take no part in the derived metrics and are left out.     *)
(***************************************************************************)
RECURSIVE Gcd(_, _)
Gcd(a, b) == IF b = 0 THEN a ELSE Gcd(b, a % b)

FNone == [k |-> "none", n |-> 0, d |-> 1, root |-> 1]

FNan == [k |-> "nan", n |-> 0, d |-> 1, root |-> 1]

FComplex == [k |-> "complex", n |-> 0, d |-> 1, root |-> 1]

Num(n, d) ==
    LET g == Gcd(Abs(n), Abs(d))
        s == IF d < 0 THEN -1 ELSE 1
    IN [k |-> "num", n |-> (s * n) \div g, d |-> (s * d) \div g, root |-> 1]

\* safe_float(x) with default None
safe_float(c) ==
    CASE c.k \in {"null", "empty", "nonestr"} -> FNone
      [] c.k \in {"numstr", "float"} -> Num(c.v, 1)
      [] c.k = "nan" -> FNan
      [] OTHER -> FNone

\* Python truth value of a float-or-None
FTruthy(x) == x.k = "nan" \/ (x.k = "num" /\ x.n # 0)

IsNone(x) == x.k = "none"

\* x in (None, 0)
NoneOrZero(x) == x.k = "none" \/ (x.k = "num" /\ x.n = 0)

FDiv(x, y) == IF x.k = "nan" \/ y.k = "nan" THEN FNan ELSE Num(x.n * y.d, x.d * y.n)

FSub(x, y) == IF x.k = "nan" \/ y.k = "nan" THEN FNan ELSE Num(x.n * y.d - y.n * x.d, x.d * y.d)

FAdd(x, y) == IF x.k = "nan" \/ y.k = "nan" THEN FNan ELSE Num(x.n * y.d + y.n * x.d, x.d * y.d)

FMul(x, y) == IF x.k = "nan" \/ y.k = "nan" THEN FNan ELSE Num(x.n * y.n, x.d * y.d)

FAbs(x) == IF x.k = "nan" THEN FNan ELSE Num(Abs(x.n), x.d)

\* (end / start) ** (1.0 / n) - 1.0
Growth(start, end, n) ==
    LET ratio == FDiv(end, start)
    IN IF ratio.k = "nan" THEN FNan
       ELSE IF n = 1 THEN FSub(ratio, Num(1, 1))
       ELSE IF ratio.n < 0 THEN FComplex
       ELSE IF ratio.n = 0 THEN Num(-1, 1)
       ELSE IF ratio.n = ratio.d THEN Num(0, 1)
       ELSE [k |-> "cagr", n |-> ratio.n, d |-> ratio.d, root |-> n]

IsSome(x) == ~IsNone(x)

\* the local function cagr of compute_metrics
cagr(series) ==
    LET s == SelectSeq(series, IsSome)
    IN IF Len(s) < 2 THEN FNone
       ELSE IF NoneOrZero(s[1]) THEN FNone
       ELSE Growth(s[1], s[Len(s)], Len(s) - 1)

\* series[-4:]
LastFour(s) == IF Len(s) <= 4 THEN s ELSE SubSeq(s, Len(s) - 3, Len(s))

\* [safe_float(x) for x in df[col].tolist()], or [] without the column
FloatColumn(df, col) ==
    IF DfEmpty(df) \/ col \notin df.columns THEN <<>>
    ELSE [i \in 1..Len(df.rows) |-> safe_float(df.rows[i][col])]

\* the local function last_float of compute_metrics
last_float(df, col) ==
    IF DfEmpty(df) \/ col \notin df.columns THEN FNone
    ELSE safe_float(df.rows[Len(df.rows)][col])

MetricNames ==
    {"GrossMargin", "OpMargin", "NetMargin", "FCF", "FCFMargin", "NetDebt",
     "InterestCoverage", "ROE", "ROIC", "RevenueCAGR3Y", "EPSCAGR3Y"}

NoMetrics == [m \in MetricNames |-> FNone]

\* compute_metrics(f, price): the derived metrics of its result
compute_metrics(f) ==
    LET revs == FloatColumn(f.income_annual, "totalRevenue")
        epss == FloatColumn(f.earnings_annual, "reportedEPS")
        gross == last_float(f.income_annual, "grossProfit")
        revenue == last_float(f.income_annual, "totalRevenue")
        opInc == last_float(f.income_annual, "operatingIncome")
        netInc == last_float(f.income_annual, "netIncome")
        ocf == last_float(f.cash_annual, "operatingCashflow")
        capex == last_float(f.cash_annual, "capitalExpenditures")
        fcf == IF IsSome(ocf) /\ IsSome(capex) THEN FSub(ocf, FAbs(capex)) ELSE FNone
        totalDebt == last_float(f.balance_annual, "totalDebt")
        cash == last_float(f.balance_annual, "cashAndCashEquivalentsAtCarryingValue")
        netDebt == IF IsSome(totalDebt) /\ IsSome(cash) THEN FSub(totalDebt, cash) ELSE FNone
        interestExp == last_float(f.income_annual, "interestExpense")
        ebit == opInc
        equity == last_float(f.balance_annual, "totalShareholderEquity")
        nopat == IF IsSome(opInc) THEN FMul(opInc, Num(3, 4)) ELSE FNone
        invested_cap == IF IsSome(netDebt) /\ IsSome(equity) THEN FAdd(netDebt, equity)
                        ELSE FNone
    IN [RevenueCAGR3Y |-> cagr(LastFour(revs)),
        EPSCAGR3Y |-> cagr(LastFour(epss)),
        GrossMargin |-> IF IsSome(gross) /\ FTruthy(revenue) THEN FDiv(gross, revenue) ELSE FNone,
        OpMargin |-> IF IsSome(opInc) /\ FTruthy(revenue) THEN FDiv(opInc, revenue) ELSE FNone,
        NetMargin |-> IF IsSome(netInc) /\ FTruthy(revenue) THEN FDiv(netInc, revenue) ELSE FNone,
        FCF |-> fcf,
        FCFMargin |-> IF IsSome(fcf) /\ FTruthy(revenue) THEN FDiv(fcf, revenue) ELSE FNone,
        NetDebt |-> netDebt,
        InterestCoverage |-> IF FTruthy(ebit) /\ FTruthy(interestExp)
                             THEN FDiv(ebit, FAbs(interestExp)) ELSE FNone,
        ROE |-> IF IsSome(netInc) /\ ~NoneOrZero(equity) THEN FDiv(netInc, equity) ELSE FNone,
        ROIC |-> IF IsSome(nopat) /\ ~NoneOrZero(invested_cap)
                 THEN FDiv(nopat, invested_cap) ELSE FNone]

\* the columns each metric reads from the newest row: <<frame, column>>
MetricInputs ==
    [GrossMargin |-> {<<"income_annual", "grossProfit">>, <<"income_annual", "totalRevenue">>},
     OpMargin |-> {<<"income_annual", "operatingIncome">>, <<"income_annual", "totalRevenue">>},
     NetMargin |-> {<<"income_annual", "netIncome">>, <<"income_annual", "totalRevenue">>},
     FCF |-> {<<"cash_annual", "operatingCashflow">>, <<"cash_annual", "capitalExpenditures">>},
     FCFMargin |-> {<<"cash_annual", "operatingCashflow">>,
                    <<"cash_annual", "capitalExpenditures">>,
                    <<"income_annual", "totalRevenue">>},
     NetDebt |-> {<<"balance_annual", "totalDebt">>,
                  <<"balance_annual", "cashAndCashEquivalentsAtCarryingValue">>},
     InterestCoverage |-> {<<"income_annual", "operatingIncome">>,
                           <<"income_annual", "interestExpense">>},
     ROE |-> {<<"income_annual", "netIncome">>, <<"balance_annual", "totalShareholderEquity">>},
     ROIC |-> {<<"income_annual", "operatingIncome">>, <<"balance_annual", "totalDebt">>,
               <<"balance_annual", "cashAndCashEquivalentsAtCarryingValue">>,
               <<"balance_annual", "totalShareholderEquity">>},
     RevenueCAGR3Y |-> {<<"income_annual", "totalRevenue">>},
     EPSCAGR3Y |-> {<<"earnings_annual", "reportedEPS">>}]

\* the newest row of the frame holds no value in the column
MissingInBundle(f, in) ==
    LET df == f[in[1]]
    IN \/ DfEmpty(df)
       \/ in[2] \notin df.columns
       \/ df.rows[Len(df.rows)][in[2]].k \in {"nan", "null", "nonestr", "empty"}

(***************************************************************************)
(* logic/valuation.py: _clamp and dcf_lite                                 *)
(* The metrics handed to the valuation and to the gates are floats-or-None *)
(* in fixed point: [k, v] with k = "none" (None), "nan" (float NaN),       *)
(* "complex" (a complex number, as cagr yields for a negative ratio) or    *)
(* "num", the number v / Scale.  Products and quotients round towards      *)
(* minus infinity.                                                         *)
(***************************************************************************)
Scale == 1000

XNone == [k |-> "none", v |-> 0]

XNan == [k |-> "nan", v |-> 0]

XComplex == [k |-> "complex", v |-> 0]

Milli(v) == [k |-> "num", v |-> v]

XAdd(x, y) == IF x.k = "nan" \/ y.k = "nan" THEN XNan ELSE Milli(x.v + y.v)

XSub(x, y) == IF x.k = "nan" \/ y.k = "nan" THEN XNan ELSE Milli(x.v - y.v)

XMul(x, y) == IF x.k = "nan" \/ y.k = "nan" THEN XNan ELSE Milli((x.v * y.v) \div Scale)

XDiv(x, y) == IF x.k = "nan" \/ y.k = "nan" THEN XNan ELSE Milli((x.v * Scale) \div y.v)

\* Python truth value: None and 0.0 are false, NaN is true
XTruthy(x) == x.k = "nan" \/ (x.k = "num" /\ x.v # 0)

\* x > 0 for a float (False for NaN)
XPositive(x) == x.k = "num" /\ x.v > 0

\* x <= 0 for a float (False for NaN)
XNonPositive(x) == x.k = "num" /\ x.v <= 0

\* min(hi, x): the first argument unless x < hi
MinFirst(hi, x) == IF x.k = "num" /\ x.v < hi.v THEN x ELSE hi

\* max(lo, y): the first argument unless y > lo
MaxFirst(lo, y) == IF y.k = "num" /\ y.v > lo.v THEN y ELSE lo

\* the growth of the docstring of dcf_lite, min(max(x, 0%), hi): floor at zero
clampAtZero(x, lo, hi, default) ==
    IF x.k = "none" THEN [raised |-> FALSE, v |-> default]
    ELSE IF x.k = "complex" THEN [raised |-> TRUE, v |-> XNone]
    ELSE [raised |-> FALSE, v |-> MinFirst(hi, MaxFirst(Milli(0), x))]

\* _clamp(x, lo, hi, default); comparing a complex number raises TypeError
clamp(x, lo, hi, default) ==
    IF x.k = "none" THEN [raised |-> FALSE, v |-> default]
    ELSE IF x.k = "complex" THEN [raised |-> TRUE, v |-> XNone]
    ELSE [raised |-> FALSE, v |-> MaxFirst(lo, MinFirst(hi, x))]

GrowthLow == -20

GrowthHigh == 60

GrowthDefault == 30

DiscountRate == 100

TerminalGrowth == 25

Horizon == 5

One == Milli(Scale)

\* (1 + dr) ** t
RECURSIVE Compound(_, _)
Compound(dr, t) == IF t = 0 THEN One ELSE XMul(Compound(dr, t - 1), XAdd(One, dr))

\* the projection loop of dcf_lite after t years: [f, pv]
RECURSIVE Project(_, _, _, _)
Project(fcf, g, dr, t) ==
    IF t = 0 THEN [f |-> fcf, pv |-> Milli(0)]
    ELSE LET before == Project(fcf, g, dr, t - 1)
             f == XMul(before.f, XAdd(One, g))
         IN [f |-> f, pv |-> XAdd(before.pv, XDiv(f, Compound(dr, t)))]

NoAssumptions == [g |-> XNone, dr |-> XNone, tg |-> XNone, years |-> 0]

\* dcf_lite(metrics): the dict returned (its keys and values), or the error
dcf_lite(metrics) ==
    LET fcf == metrics.FCF
        so == metrics.SharesOutstanding
        price == metrics.Price
        mc == metrics.MarketCap
        g == clamp(metrics.RevenueCAGR3Y, Milli(GrowthLow), Milli(GrowthHigh),
                   Milli(GrowthDefault))
        dr == Milli(DiscountRate)
        tg == Milli(TerminalGrowth)
        years == Horizon
        loop == Project(fcf, g.v, dr, years)
        terminal == XDiv(XMul(loop.f, XAdd(One, tg)), XSub(dr, tg))
        pv_term == XDiv(terminal, Compound(dr, years))
        ev == XAdd(loop.pv, pv_term)
        fv_ps == IF XTruthy(so) /\ XPositive(so) THEN XDiv(ev, so) ELSE XNone
        upside_pct ==
            IF XTruthy(fv_ps) /\ XTruthy(price) /\ XPositive(price)
            THEN XMul(XSub(XDiv(fv_ps, price), One), Milli(100 * Scale))
            ELSE IF XTruthy(ev) /\ XTruthy(mc) /\ XPositive(mc)
            THEN XMul(XSub(XDiv(ev, mc), One), Milli(100 * Scale))
            ELSE XNone
    IN IF g.raised
       THEN [kind |-> "raised", keys |-> {}, fv_base |-> XNone, fv_ps |-> XNone,
             upside_pct |-> XNone, assumptions |-> NoAssumptions]
       ELSE IF fcf.k = "none" \/ XNonPositive(fcf)
       THEN [kind |-> "dict", keys |-> {"fv_base", "fv_ps", "upside_pct"},
             fv_base |-> XNone, fv_ps |-> XNone, upside_pct |-> XNone,
             assumptions |-> NoAssumptions]
       ELSE [kind |-> "dict", keys |-> {"fv_base", "fv_ps", "upside_pct", "assumptions"},
             fv_base |-> ev, fv_ps |-> fv_ps, upside_pct |-> upside_pct,
             assumptions |-> [g |-> g.v, dr |-> dr, tg |-> tg, years |-> years]]

(***************************************************************************)
(* logic/rules.py: DEFAULT_THRESHOLDS, quality_pass, mos_pass              *)
(* Thresholds are fixed-point numbers (v / Scale).  A reason is the text   *)
(* of the message and the threshold formatted into it (0 when the text     *)
(* holds none).                                                            *)
(***************************************************************************)
DEFAULT_THRESHOLDS ==
    [ROIC_min |-> 120, ROE_min |-> 120, FCFMargin_min |-> 50,
     NetDebtToEBITDA_max |-> 2500, InterestCoverage_min |-> 4000,
     PB_max |-> 5000, PE_max |-> 40000, MOS_upside_min |-> 50000]

Msg(text, t) == [text |-> text, th |-> t]

\* x > t: a comparison that rejects the threshold itself
XAbove(x, t) == x.k = "num" /\ x.v > t

\* x >= t for a float x (False for NaN)
XGeq(x, t) == x.k = "num" /\ x.v >= t

\* x <= t for a float x (False for NaN)
XLeq(x, t) == x.k = "num" /\ x.v <= t

\* a check that fails without saying why
checkSilent(acc, cond, msg) ==
    IF cond THEN acc ELSE [ok |-> FALSE, reasons |-> acc.reasons]

\* the local function check of quality_pass on acc = [ok, reasons]
check(acc, cond, msg) ==
    IF cond THEN acc ELSE [ok |-> FALSE, reasons |-> Append(acc.reasons, msg)]

\* ok = True and reasons = [] at the start of every call of quality_pass
NewVerdict == [ok |-> TRUE, reasons |-> <<>>]

\* quality_pass(metrics, th)
quality_pass(metrics, th) ==
    LET a0 == NewVerdict
        roic == metrics.ROIC
        a1 == IF roic.k # "none"
              THEN check(a0, XGeq(roic, th.ROIC_min), Msg("ROIC<", th.ROIC_min))
              ELSE a0
        roe == metrics.ROE
        a2 == IF roe.k # "none"
              THEN check(a1, XGeq(roe, th.ROE_min), Msg("ROE<", th.ROE_min))
              ELSE a1
        fcfm == metrics.FCFMargin
        a3 == IF fcfm.k # "none"
              THEN check(a2, XGeq(fcfm, th.FCFMargin_min),
                         Msg("FCF margin<", th.FCFMargin_min))
              ELSE a2
        ebitda == metrics.EBITDA
        net_debt == metrics.NetDebt
        a4 == IF XTruthy(ebitda) /\ XPositive(ebitda) /\ net_debt.k # "none"
              THEN check(a3, XLeq(XDiv(net_debt, ebitda), th.NetDebtToEBITDA_max),
                         Msg("NetDebt/EBITDA>", th.NetDebtToEBITDA_max))
              ELSE a3
        ic == metrics.InterestCoverage
        a5 == IF ic.k # "none"
              THEN check(a4, XGeq(ic, th.InterestCoverage_min),
                         Msg("InterestCoverage<", th.InterestCoverage_min))
              ELSE a4
        pe == metrics.PE
        a6 == IF pe.k # "none"
              THEN check(a5, XLeq(pe, th.PE_max), Msg("PE too high", 0))
              ELSE a5
        pb == metrics.PB
        a7 == IF pb.k # "none"
              THEN check(a6, XLeq(pb, th.PB_max), Msg("PB too high", 0))
              ELSE a6
    IN [pass |-> a7.ok, reasons |-> a7.reasons]

\* a margin check that skips a null upside the way the quality checks skip a null metric
mosSkipsNull(upside_pct, th) ==
    IF upside_pct.k = "none"
    THEN [pass |-> TRUE, reasons |-> <<>>]
    ELSE [pass |-> XGeq(upside_pct, th.MOS_upside_min),
          reasons |-> IF XGeq(upside_pct, th.MOS_upside_min) THEN <<>>
                      ELSE <<Msg("Upside<", th.MOS_upside_min)>>]

\* mos_pass(upside_pct, th)
mos_pass(upside_pct, th) ==
    IF upside_pct.k = "none"
    THEN [pass |-> FALSE, reasons |-> <<Msg("No upside estimate", 0)>>]
    ELSE [pass |-> XGeq(upside_pct, th.MOS_upside_min),
          reasons |-> IF XGeq(upside_pct, th.MOS_upside_min) THEN <<>>
                      ELSE <<Msg("Upside<", th.MOS_upside_min)>>]

(***************************************************************************)
(* What compute_metrics, dcf_lite, quality_pass and mos_pass write.  For   *)
(* each function: the object every name of its body is bound to, an        *)
(* argument (or a part of one) or an object the call itself creates        *)
(* ("new"), and every statement of the body that stores into an object     *)
(* (an item assignment, update or append) with the name it stores through. *)
(* Rebinding a local name (ok = False, f = f * (1 + g), pv += ...) stores  *)
(* into no object.  The arguments after a call are the arguments with the  *)
(* stores made through names bound to them.                                *)
(***************************************************************************)
Store(through, key) == [through |-> through, key |-> key]

\* compute_metrics: out = {} (133), ov = f.overview (134), revs = [] (163),
\* epss = [] (170), series = [x for x in series ...] in cagr (154), df the
\* frame handed to last_float (177) and f the bundle
compute_metrics_binds ==
    [f |-> "f", ov |-> "f.overview", df |-> "f.frame", out |-> "new", revs |-> "new",
     epss |-> "new", series |-> "new"]

\* out.update({...}) (145-150), revs.append (166), epss.append (173) and the
\* item assignments out[...] = ... (167-230)
compute_metrics_stores ==
    {Store("out", k) : k \in {"SharesOutstanding", "MarketCap", "EBITDA", "PE", "PS", "PB",
                              "DividendYield", "Sector", "Industry", "Name", "Symbol",
                              "RevenueCAGR3Y", "EPSCAGR3Y", "GrossMargin", "OpMargin",
                              "NetMargin", "FCF", "FCFMargin", "NetDebt",
                              "InterestCoverage", "ROE", "ROIC", "Price",
                              "ImpliedMarketCapFromPrice"}}
        \cup {Store("revs", "append"), Store("epss", "append")}

\* dcf_lite: metrics is only read with .get (21-26); every other name holds a
\* number; the dicts returned are built in the return statements (32, 55-60)
dcf_lite_binds == [metrics |-> "metrics"]

dcf_lite_stores == {}

\* quality_pass: reasons = [] (19); metrics is read with .get and th by index
quality_pass_binds == [metrics |-> "metrics", th |-> "th", reasons |-> "new"]

\* a quality_pass that puts the ratio it computed in place of NetDebt in the
\* mapping it was given
quality_pass_stores_keeping_ratio == {Store("reasons", "append"), Store("metrics", "NetDebt")}

\* reasons.append(msg) in check (25)
quality_pass_stores == {Store("reasons", "append")}

\* mos_pass: th is read by index (61-62), the lists returned are new
mos_pass_binds == [th |-> "th"]

mos_pass_stores == {}

\* the keys under which a call stores into the object obj
StoredKeys(binds, stores, obj) == {s.key : s \in {t \in stores : binds[t.through] = obj}}

\* values a store may leave under a key of the metrics mapping
StoredCells == {XNone, Milli(0)}

\* values a store may leave under a key of the threshold mapping
StoredThresholds == {0}

\* a dict after stores under keys: the other entries are as they were and a
\* stored key holds one of values
DictAfter(d, keys, values) ==
    {[k \in DOMAIN d \cup keys |-> IF k \in keys THEN w[k] ELSE d[k]] : w \in [keys -> values]}

\* a frame after the column assignments df[c] = ... for c in keys
FrameAfter(df, keys) ==
    IF keys = {} THEN df
    ELSE [columns |-> df.columns \cup keys,
          rows |-> [i \in 1..Len(df.rows) |->
                       [c \in df.columns \cup keys |->
                           IF c \in keys THEN NaN ELSE df.rows[i][c]]]]

\* the bundle after a call: its overview with the keys stored through names
\* bound to it, its frames with the columns stored through names bound to them
BundleAfter(f, binds, stores) ==
    [n \in DOMAIN f |->
        IF n = "overview" THEN f[n] \cup StoredKeys(binds, stores, "f.overview")
        ELSE FrameAfter(f[n], StoredKeys(binds, stores, "f.frame")
                                  \cup StoredKeys(binds, stores, "f"))]

(***************************************************************************)
(* fetch_fundamentals without the cache, followed by compute_metrics       *)
(***************************************************************************)
MaxRecords == 3

MaxPrior == 2

NoFetch == [kind |-> "none", exc |-> "", f |-> NoBundle, net_calls |-> 0]

\* what a vendor record can carry as its period-end date
DateCells == {Absent, TextStr, PyNull} \cup {DateStr(y) : y \in 1..MaxRecords}

\* the i-th record of a list with the date cell d; its value tells the
\* records apart
ListedRecord(i, d) ==
    IF d = Absent THEN [totalRevenue |-> NumStr(100 * i)]
    ELSE [fiscalDateEnding |-> d, totalRevenue |-> NumStr(100 * i)]

RecordLists ==
    UNION {{[i \in 1..n |-> ListedRecord(i, ds[i])] : ds \in [1..n -> DateCells]} :
           n \in 0..MaxRecords}

EmptyAnswers ==
    [ov |-> Answer(FALSE, OverviewBody), inc |-> Answer(FALSE, ReportsBody(<<>>)),
     bal |-> Answer(FALSE, ReportsBody(<<>>)), cas |-> Answer(FALSE, ReportsBody(<<>>)),
     ern |-> Answer(FALSE, EarningsBody(<<>>))]

Series == {"inc", "bal", "cas", "ern"}

ListBody(s, list) == IF s = "ern" THEN EarningsBody(list) ELSE ReportsBody(list)

\* bodies without a usable envelope
ShapelessBodies ==
    {NoteBody, EmptyDictBody, ErrorDictBody, JsonListBody, TextBody(0, 0),
     JsonDict({"symbol"})}

\* payload shapes: one series carries a record list or a shapeless body
ShapeAnswers ==
    {[[EmptyAnswers EXCEPT ![s] = Answer(FALSE, ListBody(s, list))]
          EXCEPT !.ov = Answer(FALSE, ob)] :
        s \in Series, list \in RecordLists, ob \in {OverviewBody, EmptyDictBody}}
    \cup {[EmptyAnswers EXCEPT ![s] = Answer(FALSE, b)] :
              s \in Series, b \in ShapelessBodies}

FrameFields ==
    [inc |-> {"totalRevenue", "grossProfit", "operatingIncome", "netIncome",
              "interestExpense"},
     bal |-> {"totalDebt", "cashAndCashEquivalentsAtCarryingValue",
              "totalShareholderEquity"},
     cas |-> {"operatingCashflow", "capitalExpenditures"},
     ern |-> {"reportedEPS"}]

\* the figure a complete record of year y reports
BaseValue(field, y) ==
    CASE field = "totalRevenue" -> 100 * y
      [] field = "grossProfit" -> 40 * y
      [] field = "operatingIncome" -> 20 * y
      [] field = "netIncome" -> 10 * y
      [] field = "interestExpense" -> 5
      [] field = "totalDebt" -> 60
      [] field = "cashAndCashEquivalentsAtCarryingValue" -> 20
      [] field = "totalShareholderEquity" -> 100
      [] field = "operatingCashflow" -> 50
      [] field = "capitalExpenditures" -> -10
      [] field = "reportedEPS" -> 2 * y

\* what a field of a vendor record can hold instead of its figure
OddCells == {Absent, PyNull, NoneStr, TextStr, NumStr(0), NumStr(-50)}

\* a departure from the complete record: the field of the record of year y
\* in the series s holds cell
AllFields == UNION {FrameFields[s] : s \in Series}

DeparturesAll(years) ==
    {[s |-> s, field |-> fl, y |-> years, cell |-> c] :
        s \in Series, fl \in AllFields, c \in OddCells}
        \cup {[s |-> s, field |-> fl, y |-> y, cell |-> c] :
                  s \in {"inc", "ern"}, fl \in {"totalRevenue", "reportedEPS"},
                  y \in 1..(years - 1), c \in OddCells}

Departures(years) == {d \in DeparturesAll(years) : d.field \in FrameFields[d.s]}

CellAt(s, field, y, d1, d2) ==
    IF d1.s = s /\ d1.field = field /\ d1.y = y THEN d1.cell
    ELSE IF d2.s = s /\ d2.field = field /\ d2.y = y THEN d2.cell
    ELSE NumStr(BaseValue(field, y))

FiguresRecord(s, y, d1, d2) ==
    LET present == {fl \in FrameFields[s] : CellAt(s, fl, y, d1, d2) # Absent}
    IN [fl \in present \cup {"fiscalDateEnding"} |->
           IF fl = "fiscalDateEnding" THEN DateStr(y) ELSE CellAt(s, fl, y, d1, d2)]

\* the vendor lists the newest record first
FiguresList(s, years, d1, d2) ==
    [i \in 1..years |-> FiguresRecord(s, years + 1 - i, d1, d2)]

FiguresAnswers(years, d1, d2) ==
    [ov |-> Answer(FALSE, OverviewBody),
     inc |-> Answer(FALSE, ReportsBody(FiguresList("inc", years, d1, d2))),
     bal |-> Answer(FALSE, ReportsBody(FiguresList("bal", years, d1, d2))),
     cas |-> Answer(FALSE, ReportsBody(FiguresList("cas", years, d1, d2))),
     ern |-> Answer(FALSE, EarningsBody(FiguresList("ern", years, d1, d2)))]

\* nrm after fetch_fundamentals(av, symbol, use_cache=False) on the answers a
Fetched(a) ==
    [stage |-> "fetched",
     res |-> fetch_fundamentals(Seen(MissingFile, MissingFile), At(now, now), FALSE, a,
                                "ok").res,
     out |-> NoMetrics]

\* fetch_fundamentals on a payload shape
FetchShape ==
    /\ nrm.stage = "idle"
    /\ \E a \in ShapeAnswers : nrm' = Fetched(a)
    /\ UNCHANGED notNorm

\* fetch_fundamentals on dated records with figures
FetchFigures ==
    /\ nrm.stage = "idle"
    /\ \E years \in 1..(MaxPrior + 1) :
           \E d1 \in Departures(years), d2 \in Departures(years) :
               nrm' = Fetched(FiguresAnswers(years, d1, d2))
    /\ UNCHANGED notNorm

\* compute_metrics(f, price) on the bundle just fetched
ComputeMetrics ==
    /\ nrm.stage = "fetched"
    /\ nrm.res.kind = "bundle"
    /\ nrm' = [nrm EXCEPT !.stage = "computed", !.out = compute_metrics(nrm.res.f),
                          !.res.f = BundleAfter(@, compute_metrics_binds,
                                                compute_metrics_stores)]
    /\ UNCHANGED notNorm

(***************************************************************************)
(* The valuation and the gates as steps.  val.m is the metrics mapping,    *)
(* val.th the threshold mapping, val.upside the upside handed to mos_pass; *)
(* val.dcf, val.quality and val.mos are the results of the three calls and *)
(* val.again the results of calling each of them a second time.            *)
(***************************************************************************)
GateNames == {"ROIC", "ROE", "FCFMargin", "EBITDA", "NetDebt", "InterestCoverage", "PE", "PB"}

ValuationNames == {"FCF", "SharesOutstanding", "Price", "MarketCap", "RevenueCAGR3Y"}

\* a metrics mapping without any entry: metrics.get(...) is None throughout
EmptyMapping == [n \in GateNames \cup ValuationNames |-> XNone]

NoDcf ==
    [kind |-> "none", keys |-> {}, fv_base |-> XNone, fv_ps |-> XNone,
     upside_pct |-> XNone, assumptions |-> NoAssumptions]

NoVerdict == [pass |-> FALSE, reasons |-> <<>>]

NoAgain == [metrics |-> NoMetrics, dcf |-> NoDcf, quality |-> NoVerdict, mos |-> NoVerdict]

NoVal ==
    [stage |-> "empty", m |-> EmptyMapping, th |-> DEFAULT_THRESHOLDS, upside |-> XNone,
     dcf |-> NoDcf, quality |-> NoVerdict, mos |-> NoVerdict, again |-> NoAgain]

\* threshold mappings: the default one and one that overrides every entry
OtherThresholds ==
    [ROIC_min |-> 150, ROE_min |-> 100, FCFMargin_min |-> 30,
     NetDebtToEBITDA_max |-> 3000, InterestCoverage_min |-> 3000,
     PB_max |-> 6000, PE_max |-> 50000, MOS_upside_min |-> 30000]

ThresholdSets == {DEFAULT_THRESHOLDS, OtherThresholds}

\* inputs of dcf_lite: every entry missing, NaN, zero, negative or positive
ValuationInputs ==
    [FCF : {XNone, XNan, Milli(-10000), Milli(0), Milli(50000)},
     SharesOutstanding : {XNone, Milli(0), Milli(-10000), Milli(10000)},
     Price : {XNone, Milli(0), Milli(20000), Milli(100000)},
     MarketCap : {XNone, Milli(0), Milli(400000), Milli(2000000)},
     RevenueCAGR3Y : {XNone, XNan, XComplex, Milli(-500), Milli(-20), Milli(0),
                      Milli(30), Milli(45), Milli(60), Milli(200)}]

\* inputs of quality_pass: every metric missing, below, at or above a threshold
GateInputs ==
    [ROIC : {XNone, Milli(100), Milli(150)},
     ROE : {XNone, Milli(100), Milli(120)},
     FCFMargin : {XNone, Milli(30), Milli(50)},
     EBITDA : {XNone, Milli(0), Milli(10000)},
     NetDebt : {XNone, Milli(25000), Milli(30000)},
     InterestCoverage : {XNone, Milli(0), Milli(4000)},
     PE : {XNone, Milli(40000), Milli(50000)},
     PB : {XNone, Milli(5000), Milli(6000)}]

UpsideInputs == {XNone, XNan, Milli(30000), Milli(50000)}

\* the metrics mapping holding the entries of part and nothing else
Mapping(part) ==
    [n \in GateNames \cup ValuationNames |-> IF n \in DOMAIN part THEN part[n] ELSE XNone]

\* a metrics mapping reaches the valuation
PresentMetrics ==
    /\ val.stage = "empty"
    /\ nrm.stage = "idle"
    /\ \E part \in ValuationInputs, roic \in {XNone, Milli(150)}, roe \in {XNone, Milli(100)} :
           val' = [val EXCEPT !.stage = "input",
                              !.m = [Mapping(part) EXCEPT !.ROIC = roic, !.ROE = roe]]
    /\ UNCHANGED notVal

\* a metrics mapping, an upside and a threshold mapping reach the gates
PresentGate ==
    /\ val.stage = "empty"
    /\ nrm.stage = "idle"
    /\ \E part \in GateInputs, u \in UpsideInputs, th \in ThresholdSets :
           val' = [val EXCEPT !.stage = "valued", !.m = Mapping(part), !.upside = u,
                              !.th = th]
    /\ UNCHANGED notVal

\* the metrics mapping as dcf_lite(m) may leave it
AfterDcf(m) == DictAfter(m, StoredKeys(dcf_lite_binds, dcf_lite_stores, "metrics"), StoredCells)

\* the metrics mapping as quality_pass(m, th) may leave it
AfterQuality(m) ==
    DictAfter(m, StoredKeys(quality_pass_binds, quality_pass_stores, "metrics"), StoredCells)

\* the threshold mapping as quality_pass(m, th) may leave it
ThAfterQuality(th) ==
    DictAfter(th, StoredKeys(quality_pass_binds, quality_pass_stores, "th"),
              StoredThresholds)

\* the threshold mapping as mos_pass(upside_pct, th) may leave it
ThAfterMargin(th) ==
    DictAfter(th, StoredKeys(mos_pass_binds, mos_pass_stores, "th"), StoredThresholds)

\* dcf_lite(metrics); its upside_pct is what mos_pass gets
Value ==
    /\ val.stage = "input"
    /\ \E r \in {dcf_lite(val.m)}, m \in AfterDcf(val.m) :
           val' = [val EXCEPT !.stage = IF r.kind = "raised" THEN "failed" ELSE "valued",
                              !.dcf = r, !.upside = r.upside_pct, !.m = m]
    /\ UNCHANGED notVal

\* quality_pass(metrics, th)
Quality ==
    /\ val.stage = "valued"
    /\ \E m \in AfterQuality(val.m), th \in ThAfterQuality(val.th) :
           val' = [val EXCEPT !.stage = "screened",
                              !.quality = quality_pass(val.m, val.th), !.m = m, !.th = th]
    /\ UNCHANGED notVal

\* mos_pass(upside_pct, th)
Margin ==
    /\ val.stage = "screened"
    /\ \E th \in ThAfterMargin(val.th) :
           val' = [val EXCEPT !.stage = "judged", !.mos = mos_pass(val.upside, val.th),
                              !.th = th]
    /\ UNCHANGED notVal

\* the three calls once more, each on the mappings as the call before it
\* left them
Rerun ==
    /\ val.stage = "judged"
    /\ \E m1 \in AfterDcf(val.m) :
           \E m2 \in AfterQuality(m1), th1 \in ThAfterQuality(val.th) :
               \E th2 \in ThAfterMargin(th1) :
                   val' = [val EXCEPT !.stage = "rerun",
                                      !.again.dcf = IF val.dcf.kind = "none" THEN NoDcf
                                                    ELSE dcf_lite(val.m),
                                      !.again.quality = quality_pass(m1, val.th),
                                      !.again.mos = mos_pass(val.upside, th1),
                                      !.m = m2, !.th = th2]
    /\ UNCHANGED notVal

\* fetch_fundamentals before any valuation
PureFetch ==
    /\ val.stage = "empty"
    /\ FetchFigures

\* compute_metrics on the bundle just fetched
PureMetrics ==
    /\ val.stage = "empty"
    /\ ComputeMetrics

\* compute_metrics once more on the same bundle
Recompute ==
    /\ val.stage = "empty"
    /\ nrm.stage = "computed"
    /\ val' = [val EXCEPT !.stage = "recomputed",
                          !.again.metrics = compute_metrics(nrm.res.f)]
    /\ nrm' = [nrm EXCEPT !.res.f = BundleAfter(@, compute_metrics_binds,
                                                compute_metrics_stores)]
    /\ UNCHANGED <<now, av, call, outcome, obs, scr, scr_log, fund_file, ov_file, fnd, api>>
(***************************************************************************)
(* tools/api.py: the page loops of get_insider_trades / get_company_news   *)
(* and the retry loop of search_line_items.  Dates are day numbers (ISO    *)
(* date strings compare like the days they name); 0 stands for             *)
(* start_date=None.  Sleeps are in milliseconds.                           *)
(***************************************************************************)
MaxDay == 3

MaxLimit == 2

MaxRequests == 3

MaxItems == 3

Millis == 1000

max_retries == 3

retry_delay == 2

PagedCalls == {"get_insider_trades", "get_company_news"}

NoPages ==
    [fn |-> "", stage |-> "off", start_date |-> 0, limit |-> 0, current_end_date |-> 0,
     all |-> <<>>, requests |-> 0, result |-> <<>>, exc |-> "", stored |-> <<>>]

NoSearch ==
    [stage |-> "off", retry_count |-> 0, limit |-> 0, log |-> <<>>, parsed |-> FALSE,
     result |-> 0, exc |-> ""]

NoApi == [pg |-> NoPages, sl |-> NoSearch]

\* the dates of a page or of the cached records, newest first or in any order
DateLists(lo, hi, n) == UNION {[1..k -> lo..hi] : k \in 0..n}

\* min(item.date for item in page)
RECURSIVE OldestDate(_)
OldestDate(page) ==
    IF Len(page) = 1 THEN page[1] ELSE Min(page[1], OldestDate(Tail(page)))

RECURSIVE InsertDesc(_, _)
InsertDesc(d, s) ==
    IF s = <<>> THEN <<d>>
    ELSE IF d > s[1] THEN <<d>> \o s
    ELSE <<s[1]>> \o InsertDesc(d, Tail(s))

\* sort(key=date, reverse=True)
RECURSIVE NewestFirst(_)
NewestFirst(s) == IF s = <<>> THEN <<>> ELSE InsertDesc(s[1], NewestFirst(Tail(s)))

\* the cached records inside [start_date, end_date], newest first
FilterCached(cached, start_date, end_date) ==
    LET InRange(d) == (start_date = 0 \/ d >= start_date) /\ d <= end_date
    IN NewestFirst(SelectSeq(cached, InRange))

\* what the provider can answer to the request for the page ending at
\* current_end_date: an HTTP error, a transport error, or up to limit records
\* dated inside the range asked for
PageResponses(pg) ==
    {[status |-> s, page |-> <<>>] : s \in {"400", "500", "network"}}
        \cup {[status |-> "200", page |-> p] :
                  p \in DateLists(Max(pg.start_date, 1), pg.current_end_date, pg.limit)}

\* the function up to its loop: the cache check
start_pages(fn, end_date, start_date, limit, cached) ==
    LET filtered_data == FilterCached(cached, start_date, end_date)
    IN IF filtered_data # <<>>
       THEN [NoPages EXCEPT !.fn = fn, !.stage = "returned", !.start_date = start_date,
                            !.limit = limit, !.current_end_date = end_date,
                            !.result = filtered_data]
       ELSE [NoPages EXCEPT !.fn = fn, !.stage = "loop", !.start_date = start_date,
                            !.limit = limit, !.current_end_date = end_date]

\* leaving the loop by break: [] or the cached and returned records
after_loop(pg, all) ==
    [pg EXCEPT !.stage = "returned", !.all = all, !.result = all, !.stored = all]

\* one pass through the body of `while True`
page_step(pg, resp) ==
    LET sent == [pg EXCEPT !.requests = pg.requests + 1]
        all == pg.all \o resp.page
    IN IF resp.status = "400" THEN [sent EXCEPT !.stage = "returned", !.result = <<>>]
       ELSE IF resp.status # "200"
       THEN [sent EXCEPT !.stage = "raised", !.exc = "Exception"]
       ELSE IF resp.page = <<>> THEN after_loop(sent, pg.all)
       ELSE IF pg.start_date = 0 \/ Len(resp.page) < pg.limit THEN after_loop(sent, all)
       ELSE IF OldestDate(resp.page) <= pg.start_date
       THEN after_loop([sent EXCEPT !.current_end_date = OldestDate(resp.page)], all)
       ELSE [sent EXCEPT !.all = all, !.current_end_date = OldestDate(resp.page)]

\* get_insider_trades / get_company_news is called
StartPages(fn) ==
    /\ api.pg.stage = "off"
    /\ \E end_date \in 1..MaxDay, start_date \in 0..MaxDay, limit \in 1..MaxLimit,
          cached \in {<<>>, <<1, MaxDay>>} :
           api' = [api EXCEPT !.pg = start_pages(fn, end_date, start_date, limit, cached)]
    /\ UNCHANGED notApi

\* the provider answers the request of the current pass
PageRequest ==
    /\ api.pg.stage = "loop"
    /\ api.pg.requests < MaxRequests
    /\ \E resp \in PageResponses(api.pg) :
           api' = [api EXCEPT !.pg = page_step(api.pg, resp)]
    /\ UNCHANGED notApi

\* response of one HTTP attempt of search_line_items
Statuses == {"200", "400", "429", "500", "network"}

\* random.uniform(0, 0.5)
JitterChoices == {0, Millis \div 4, Millis \div 2}

\* a backoff that grows by retry_delay with every attempt
sleep_time_linear(retry_count, jitter) == retry_delay * Millis * (retry_count + 1) + jitter

\* sleep_time = retry_delay * (2 ** retry_count) + jitter
sleep_time(retry_count, jitter) == retry_delay * Millis * 2^retry_count + jitter

\* one pass through the body of the retry loop; n is the number of
\* search_results in a response that parses
attempt_step(sl, status, jitter, n) ==
    LET WithEntry(slept) == Append(sl.log, [status |-> status, slept |-> slept])
        retry == [sl EXCEPT !.retry_count = sl.retry_count + 1,
                            !.log = WithEntry(sleep_time(sl.retry_count, jitter))]
        ended(stage, exc) == [sl EXCEPT !.stage = stage, !.exc = exc, !.log = WithEntry(-1)]
    IN IF status = "200"
       THEN [ended("returned", "") EXCEPT !.parsed = TRUE, !.result = Min(n, sl.limit)]
       ELSE IF status = "400" THEN ended("returned", "")
       ELSE IF status = "429"
       THEN IF sl.retry_count < max_retries THEN retry ELSE ended("returned", "")
       ELSE IF status = "network"
       THEN IF sl.retry_count < max_retries THEN retry ELSE ended("raised", "Exception")
       ELSE ended("raised", "Exception")

\* search_line_items is called
StartSearch ==
    /\ api.sl.stage = "off"
    /\ \E limit \in 1..MaxLimit :
           api' = [api EXCEPT !.sl = [NoSearch EXCEPT !.stage = "try", !.limit = limit]]
    /\ UNCHANGED notApi

\* the provider answers the attempt in flight
SearchAttempt ==
    /\ api.sl.stage = "try"
    /\ \E status \in Statuses, jitter \in JitterChoices, n \in 0..MaxItems :
           api' = [api EXCEPT !.sl = attempt_step(api.sl, status, jitter, n)]
    /\ UNCHANGED notApi
(***************************************************************************)
(* Initial states and specifications.  Each specification runs one part of *)
(* the program; the variables of the other parts stay at their initial     *)
(* values.                                                                 *)
(***************************************************************************)
\* the client as constructed with the defaults, no call made
FetchOff ==
    /\ av = [pause_sec |-> DefaultPauseSec, max_retries |-> DefaultMaxRetries,
             last_call_ts |-> 0]
    /\ call = IdleCall
    /\ outcome = NoOutcome
    /\ obs = NoObs

\* no screen running
ScreenOff ==
    /\ scr = [price_source |-> "alphavantage", n |-> 0, i |-> 0, stage |-> "off",
              out |-> <<>>, throttle_hits |-> 0, result |-> <<>>]
    /\ scr_log = NoScreenLog

\* empty cache directory, nothing fetched
CacheOff ==
    /\ fund_file = MissingFile
    /\ ov_file = MissingFile
    /\ fnd = [rd |-> NoRead, wr |-> NoWrite, res |-> NoResult, net |-> NoNet,
              run |-> NoRun]

NormOff == nrm = [stage |-> "idle", res |-> NoFetch, out |-> NoMetrics]

\* no metrics mapping handed to the valuation or the gates
ValOff == val = NoVal

\* no call into tools/api.py
ApiOff == api = NoApi

InitFetch ==
    /\ now = StartTime
    /\ av \in [pause_sec : PauseChoices, max_retries : RetryChoices, last_call_ts : {0}]
    /\ call = IdleCall
    /\ outcome = NoOutcome
    /\ obs = NoObs
    /\ ScreenOff
    /\ CacheOff
    /\ NormOff
    /\ ValOff
    /\ ApiOff

NextFetch ==
    \/ \E e \in Endpoints : CallGet(e)
    \/ \E d \in 0..MaxLatency, b \in UNION {BodiesFor(e) : e \in Endpoints} : AttemptOk(d, b)
    \/ \E d \in 0..MaxLatency : AttemptFail(d)
    \/ Idle

SpecFetch == InitFetch /\ [][NextFetch]_vars

InitScreen ==
    /\ now = StartTime
    /\ FetchOff
    /\ \E src \in {"alphavantage", "yfinance"}, n \in 0..MaxSymbols :
           scr = [price_source |-> src, n |-> n, i |-> IF n = 0 THEN 0 ELSE 1,
                  stage |-> IF n = 0 THEN "done" ELSE FirstStage(src),
                  out |-> <<>>, throttle_hits |-> 0, result |-> <<>>]
    /\ scr_log = NoScreenLog
    /\ CacheOff
    /\ NormOff
    /\ ValOff
    /\ ApiOff

NextScreen ==
    \/ \E r \in YfAnswers : ScreenYf(r)
    \/ \E a \in ScreenDailyAnswers : ScreenDaily(a)
    \/ \E a \in ScreenQuoteAnswers : ScreenQuote(a)

SpecScreen == InitScreen /\ [][NextScreen]_vars

InitCache ==
    /\ now = StartTime
    /\ FetchOff
    /\ ScreenOff
    /\ CacheOff
    /\ NormOff
    /\ ValOff
    /\ ApiOff

NextCache ==
    \/ \E use_cache \in BOOLEAN : FetchStart(use_cache)
    \/ \E a \in CacheAnswers, io \in IoOutcomes, client \in Clients :
           FetchFinish(a, io, client)
    \/ \E file \in DamagedFiles : Damage("fund", file)
    \/ \E dt \in {1, CACHE_TTL_SEC} : Tick(dt)

SpecCache == InitCache /\ [][NextCache]_vars

InitOverview == InitCache

NextOverview ==
    \/ \E p \in OverviewPayloads, io \in IoOutcomes : OverviewPut(p, io)
    \/ OverviewGet
    \/ \E file \in DamagedFiles : Damage("overview", file)
    \/ \E dt \in {1, CACHE_TTL_SEC} : Tick(dt)

SpecOverview == InitOverview /\ [][NextOverview]_vars

InitNorm == InitCache

NextNorm ==
    \/ FetchShape
    \/ FetchFigures
    \/ ComputeMetrics

SpecNorm == InitNorm /\ [][NextNorm]_vars


InitValue == InitCache

NextValue ==
    \/ PresentMetrics
    \/ Value
    \/ Quality
    \/ Margin

SpecValue == InitValue /\ [][NextValue]_vars

InitGate == InitCache

NextGate ==
    \/ PresentGate
    \/ Quality
    \/ Margin

SpecGate == InitGate /\ [][NextGate]_vars

InitPure == InitCache

NextPure ==
    \/ PureFetch
    \/ PureMetrics
    \/ Recompute
    \/ PresentMetrics
    \/ PresentGate
    \/ Value
    \/ Quality
    \/ Margin
    \/ Rerun

SpecPure == InitPure /\ [][NextPure]_vars

InitRun ==
    /\ now = StartTime
    /\ FetchOff
    /\ \E src \in {"alphavantage", "yfinance"}, n \in 0..MaxSymbols :
           scr = [price_source |-> src, n |-> n, i |-> 0, stage |-> "discover",
                  out |-> <<>>, throttle_hits |-> 0, result |-> <<>>]
    /\ scr_log = NoScreenLog
    /\ CacheOff
    /\ NormOff
    /\ ValOff
    /\ ApiOff

NextRun ==
    \/ \E a \in ListingAnswers : Discover(a)
    \/ \E r \in YfAnswers : ScreenYf(r)
    \/ \E a \in ScreenDailyAnswers : ScreenDaily(a)
    \/ \E a \in ScreenQuoteAnswers : ScreenQuote(a)

SpecRun == InitRun /\ [][NextRun]_vars

\* get_insider_trades / get_company_news: one call, request by request
InitPages == InitCache

NextPages ==
    \/ \E fn \in PagedCalls : StartPages(fn)
    \/ PageRequest

SpecPages == InitPages /\ [][NextPages]_vars

\* search_line_items: one call, attempt by attempt
InitSearch == InitCache

NextSearch ==
    \/ StartSearch
    \/ SearchAttempt

SpecSearch == InitSearch /\ [][NextSearch]_vars
(***************************************************************************)
(* Claims about the client (checked under SpecFetch)                       *)
(***************************************************************************)

\* C1: every call waits until pause_sec has elapsed since the last successful
\* call (one clock for all endpoints), so two consecutive successful HTTP
\* responses of the client are at least pause_sec apart, whatever calls,
\* failures and retries came in between.
C1_Pacing ==
    /\ obs.start_elapsed # -1 => obs.start_elapsed >= av.pause_sec
    /\ obs.resp_gap # -1 => obs.resp_gap >= av.pause_sec

\* C1 witness: a second successful response that came after a retry.
C1_Witness ==
    /\ outcome.kind = "returned"
    /\ outcome.attempts >= 2
    /\ obs.resp_gap # -1

\* C2: a transport failure of attempt k is followed by a sleep of
\* min(pause_sec * k, 30) and, while k < max_retries, by another attempt; the
\* first response ends the call with no further attempt; when all max_retries
\* attempts failed the call raises AlphaVantageError.
C2_RetryProtocol ==
    /\ call.pc = "inflight" =>
           /\ call.attempt <= av.max_retries
           /\ Len(call.sleeps) = call.attempt - 1
    /\ \A k \in 1..Len(call.sleeps) :
           call.sleeps[k] = (IF av.pause_sec * k <= 30 THEN av.pause_sec * k ELSE 30)
    /\ \A k \in 1..Len(outcome.sleeps) :
           outcome.sleeps[k] = (IF av.pause_sec * k <= 30 THEN av.pause_sec * k ELSE 30)
    /\ outcome.kind = "returned" =>
           /\ call.pc = "idle"
           /\ outcome.attempts <= av.max_retries
           /\ Len(outcome.sleeps) = outcome.attempts - 1
    /\ outcome.kind = "AlphaVantageError" =>
           /\ call.pc = "idle"
           /\ outcome.attempts = av.max_retries
           /\ Len(outcome.sleeps) = av.max_retries

\* C2 witness: a call with the default configuration that failed three times
\* (sleeps 12, 24, 30) and raised.
C2_Witness ==
    /\ outcome.kind = "AlphaVantageError"
    /\ av.pause_sec = DefaultPauseSec
    /\ outcome.sleeps = <<12, 24, 30>>

\* C3: for every endpoint a response carrying the rate-limit Note ends the call
\* without a retry and yields a result that differs from the result of every
\* response without the Note (a payload, an empty or malformed body).
C3_ThrottleDistinguishable ==
    (/\ outcome.kind = "returned"
     /\ IsNote(outcome.body)
     /\ outcome.endpoint # "top_gainers_losers") =>
        /\ call.pc = "idle"
        /\ \A b \in BodiesFor(outcome.endpoint) :
               ~IsNote(b) =>
                   Returned(outcome.endpoint, b)
                       # Returned(outcome.endpoint, outcome.body)

(***************************************************************************)
(* Claims about the screen (checked under SpecScreen)                      *)
(***************************************************************************)

\* C4: once a provider call of the screen has answered with the rate-limit
\* Note for some symbol, no provider call is made for any later symbol.
C4_StopsOnThrottle ==
    scr_log.throttled_at # 0 =>
        \A c \in scr_log.calls : c[1] <= scr_log.throttled_at

(***************************************************************************)
(* C5: cache TTL rule, for the fundamentals cache (14 days) and the        *)
(* overview cache (7 days): a get on a readable entry of age now - ts      *)
(* returns the entry when the age is at most the ttl, the boundary         *)
(* age = ttl included, and returns absent exactly when the age exceeds     *)
(* the ttl.                                                                *)
(***************************************************************************)
C5_TtlRule ==
    (fnd.rd.cache # "" /\ fnd.rd.wellformed) =>
        (fnd.rd.hit <=> fnd.rd.age <= (IF fnd.rd.cache = "fund" THEN TTL ELSE CACHE_TTL_SEC))

(***************************************************************************)
(* C6: cache round trip of fetch_fundamentals: after a call with           *)
(* use_cache=True returned a bundle obtained from the network, a second    *)
(* call within 14 days returns a bundle equal to the first without any     *)
(* network call; once the entry is older than the TTL the second call      *)
(* fetches from the network again.                                         *)
(***************************************************************************)
C6_RoundTrip ==
    /\ fnd.res.pre =>
           (fnd.res.net_calls = 0 /\ fnd.res.kind = "bundle" /\ fnd.res.same)
    /\ fnd.res.stale => fnd.res.net_calls > 0

(***************************************************************************)
(* C7: cache operations never raise; a failing read is a miss, a failing   *)
(* write is a no-op (the entry stored before it is still there), and a     *)
(* miss in fetch_fundamentals is followed by a network fetch.              *)
(***************************************************************************)
C7_FailuresAreHarmless ==
    /\ (fnd.wr.cache # "" /\ fnd.wr.failed) => ~fnd.wr.lost
    /\ (fnd.rd.cache # "" /\ ~fnd.rd.wellformed /\ fnd.rd.unreadable) => ~fnd.rd.hit
    /\ (fnd.res.use_cache /\ ~fnd.rd.hit) => fnd.res.net_calls > 0

(***************************************************************************)
(* C8: NormalizedSeries invariant: each of the four series of a bundle     *)
(* built by fetch_fundamentals holds only records with a parsed            *)
(* period-end date and is sorted ascending by that date, whatever the      *)
(* order and shape of the vendor's record list.                            *)
(***************************************************************************)
C8_NormalizedSeries ==
    (nrm.stage # "idle" /\ nrm.res.kind = "bundle") =>
        \A n \in FrameNames :
            LET rows == nrm.res.f[n].rows
            IN /\ \A i \in 1..Len(rows) :
                      /\ "fiscalDateEnding" \in DOMAIN rows[i]
                      /\ rows[i]["fiscalDateEnding"].k = "ts"
               /\ \A i \in 1..Len(rows) : \A j \in i..Len(rows) :
                      rows[i]["fiscalDateEnding"].v <= rows[j]["fiscalDateEnding"].v

(***************************************************************************)
(* C9: normalisation never throws: for every provider payload shape        *)
(* fetch_fundamentals returns a bundle or None and raises no exception.    *)
(***************************************************************************)
C9_NeverThrows == nrm.stage # "idle" => nrm.res.kind \in {"bundle", "None"}

(***************************************************************************)
(* C10: null propagation in compute_metrics: a derived metric one of whose *)
(* inputs is missing in the bundle is null.                                *)
(***************************************************************************)
C10_NullPropagation ==
    nrm.stage = "computed" =>
        \A m \in MetricNames :
            (\E in \in MetricInputs[m] : MissingInBundle(nrm.res.f, in)) =>
                nrm.out[m].k = "none"

(***************************************************************************)
(* C11: interest coverage equals operatingIncome / |interestExpense|       *)
(* whenever operatingIncome is known (zero included, giving coverage 0)    *)
(* and interestExpense is known and non-zero; it is null only if           *)
(* operatingIncome is missing or interestExpense is null or zero.          *)
(***************************************************************************)
C11_InterestCoverage ==
    nrm.stage = "computed" =>
        LET opInc == last_float(nrm.res.f.income_annual, "operatingIncome")
            interestExp == last_float(nrm.res.f.income_annual, "interestExpense")
        IN /\ (opInc.k = "num" /\ interestExp.k = "num" /\ interestExp.n # 0) =>
                  nrm.out["InterestCoverage"] = FDiv(opInc, FAbs(interestExp))
           /\ (opInc.k = "none" \/ interestExp.k = "none"
                   \/ (interestExp.k = "num" /\ interestExp.n = 0)) =>
                  nrm.out["InterestCoverage"].k = "none"

(***************************************************************************)
(* C12: CAGR over the most recent 4 periods of the ascending series is     *)
(* null exactly when those periods hold fewer than 2 non-null values or    *)
(* the first value used is zero; otherwise it is (end/start)^(1/n) - 1     *)
(* with n the number of period intervals between the first and the last    *)
(* sample used, also when values in between are null.                      *)
(***************************************************************************)
C12_CagrIntervals ==
    nrm.stage = "computed" =>
        LET s == LastFour(FloatColumn(nrm.res.f.income_annual, "totalRevenue"))
            used == {i \in 1..Len(s) : s[i].k # "none"}
            first == CHOOSE i \in used : \A j \in used : i <= j
            last == CHOOSE i \in used : \A j \in used : j <= i
        IN (\A i \in 1..Len(s) : s[i].k \in {"num", "none"}) =>
               IF Cardinality(used) < 2 \/ s[first].n = 0
               THEN nrm.out["RevenueCAGR3Y"].k = "none"
               ELSE nrm.out["RevenueCAGR3Y"] = Growth(s[first], s[last], last - first)


(***************************************************************************)
(* C13: dcf_lite returns the result with fv_base, fv_ps and upside_pct all *)
(* null, and raises nothing, whenever FCF is missing or <= 0, whatever the *)
(* other metrics are; whenever FCF > 0 its fv_base is non-null and         *)
(* strictly positive.                                                      *)
(***************************************************************************)
C13_NullWithoutFcf ==
    val.dcf.kind # "none" =>
        /\ (val.m.FCF.k = "none" \/ XNonPositive(val.m.FCF)) =>
               /\ val.dcf.kind = "dict"
               /\ val.dcf.fv_base = XNone
               /\ val.dcf.fv_ps = XNone
               /\ val.dcf.upside_pct = XNone
        /\ XPositive(val.m.FCF) =>
               /\ val.dcf.kind = "dict"
               /\ XPositive(val.dcf.fv_base)

(***************************************************************************)
(* C14: every result returned by dcf_lite, the all-null one included,      *)
(* carries the assumption set used: the growth g, the discount rate 10%,   *)
(* the terminal growth 2.5% and the horizon of 5 years.                    *)
(***************************************************************************)
C14_CarriesAssumptions ==
    val.dcf.kind = "dict" =>
        /\ "assumptions" \in val.dcf.keys
        /\ val.dcf.assumptions.g.k \in {"num", "nan"}
        /\ val.dcf.assumptions.dr = Milli(100)
        /\ val.dcf.assumptions.tg = Milli(25)
        /\ val.dcf.assumptions.years = 5

(***************************************************************************)
(* C15: for every RevenueCAGR3Y input the growth g of dcf_lite is the CAGR *)
(* clamped to [-2%, +6%] (-2% below, 6% above, the CAGR itself in between) *)
(* and 3% when the CAGR is null, so that -0.02 <= g <= 0.06 in every       *)
(* result.                                                                 *)
(***************************************************************************)
C15_GrowthClamped ==
    (val.dcf.kind = "dict" /\ "assumptions" \in val.dcf.keys) =>
        LET x == val.m.RevenueCAGR3Y
            g == val.dcf.assumptions.g
        IN /\ g.k = "num" /\ -20 <= g.v /\ g.v <= 60
           /\ x.k = "none" => g.v = 30
           /\ (x.k = "num" /\ x.v < -20) => g.v = -20
           /\ (x.k = "num" /\ x.v > 60) => g.v = 60
           /\ (x.k = "num" /\ -20 <= x.v /\ x.v <= 60) => g = x

\* a CAGR below the band was valued with a positive FCF
C15_Witness ==
    /\ val.stage = "valued"
    /\ XPositive(val.m.FCF)
    /\ val.m.RevenueCAGR3Y = Milli(-500)
    /\ val.dcf.assumptions.g = Milli(-20)

(***************************************************************************)
(* C16: with FCF > 0, fv_ps is ev / SharesOutstanding when the share count *)
(* is known and positive, else null; the upside is (fv_ps / price - 1) *   *)
(* 100 when fv_ps and price are known and price > 0; the proxy (ev /       *)
(* market_cap - 1) * 100 is used only when fv_ps is unavailable and ev and *)
(* market cap are known, never when fv_ps is available; otherwise the      *)
(* upside is null.                                                         *)
(***************************************************************************)
C16_UpsideSelection ==
    (val.dcf.kind = "dict" /\ XPositive(val.m.FCF)) =>
        LET so == val.m.SharesOutstanding
            price == val.m.Price
            mc == val.m.MarketCap
            ev == val.dcf.fv_base
            fv_ps == val.dcf.fv_ps
            hundred == Milli(100 * Scale)
        IN /\ fv_ps = IF XPositive(so) THEN XDiv(ev, so) ELSE XNone
           /\ val.dcf.upside_pct =
                  IF fv_ps.k # "none"
                  THEN IF XPositive(price)
                       THEN XMul(XSub(XDiv(fv_ps, price), One), hundred)
                       ELSE XNone
                  ELSE IF mc.k # "none" /\ XPositive(mc)
                       THEN XMul(XSub(XDiv(ev, mc), One), hundred)
                       ELSE XNone

(***************************************************************************)
(* C17: for every metrics input and every threshold set, the result of     *)
(* quality_pass, and likewise the result of mos_pass, has an empty reasons *)
(* list if and only if its pass is true.                                   *)
(***************************************************************************)
C17_ReasonsIffFail ==
    /\ val.stage \in {"screened", "judged", "rerun"} =>
           (val.quality.reasons = <<>> <=> val.quality.pass)
    /\ val.stage \in {"judged", "rerun"} =>
           (val.mos.reasons = <<>> <=> val.mos.pass)

\* both gates judged: quality failed on two checks, the upside passed
C17_Witness ==
    /\ val.stage = "judged"
    /\ ~val.quality.pass
    /\ Len(val.quality.reasons) = 2
    /\ val.mos.pass
    /\ val.mos.reasons = <<>>

(***************************************************************************)
(* C18: the reasons of quality_pass are exactly the violated checks among  *)
(* the evaluated ones, in the order ROIC, ROE, FCF margin, NetDebt/EBITDA  *)
(* (evaluated only when NetDebt is known and EBITDA is known and > 0),     *)
(* interest coverage, PE, PB; a null metric adds no reason and cannot make *)
(* pass false; a value equal to its threshold passes.                      *)
(***************************************************************************)
C18_ReasonsInOrder ==
    val.stage \in {"screened", "judged", "rerun"} =>
        LET mm == val.m
            th == val.th
            Below(x, t) == x.k # "none" /\ ~(x.k = "num" /\ x.v >= t)
            Over(x, t) == x.k # "none" /\ ~(x.k = "num" /\ x.v <= t)
            Violated(text) ==
                CASE text = "ROIC<" -> Below(mm.ROIC, th.ROIC_min)
                  [] text = "ROE<" -> Below(mm.ROE, th.ROE_min)
                  [] text = "FCF margin<" -> Below(mm.FCFMargin, th.FCFMargin_min)
                  [] text = "NetDebt/EBITDA>" ->
                         /\ mm.NetDebt.k = "num"
                         /\ mm.EBITDA.k = "num" /\ mm.EBITDA.v > 0
                         /\ mm.NetDebt.v * Scale > th.NetDebtToEBITDA_max * mm.EBITDA.v
                  [] text = "InterestCoverage<" ->
                         Below(mm.InterestCoverage, th.InterestCoverage_min)
                  [] text = "PE too high" -> Over(mm.PE, th.PE_max)
                  [] text = "PB too high" -> Over(mm.PB, th.PB_max)
            order == <<"ROIC<", "ROE<", "FCF margin<", "NetDebt/EBITDA>",
                       "InterestCoverage<", "PE too high", "PB too high">>
            said == [i \in 1..Len(val.quality.reasons) |-> val.quality.reasons[i].text]
        IN /\ said = SelectSeq(order, Violated)
           /\ val.quality.pass = (SelectSeq(order, Violated) = <<>>)

\* ROIC = 0.15, ROE = 0.10, all else null, default thresholds: exactly the ROE reason
C18_Witness ==
    /\ val.stage = "screened"
    /\ val.th = DEFAULT_THRESHOLDS
    /\ val.m = [EmptyMapping EXCEPT !.ROIC = Milli(150), !.ROE = Milli(100)]
    /\ ~val.quality.pass
    /\ val.quality.reasons = <<Msg("ROE<", 120)>>

(***************************************************************************)
(* C19: mos_pass returns pass = true if and only if the upside is non-null *)
(* and >= MOS_upside_min (50 by default, overridable through th); a null   *)
(* upside is not skipped but fails with a reason, so quality_pass and      *)
(* mos_pass cannot both pass without an upside estimate.                   *)
(***************************************************************************)
C19_MarginOfSafety ==
    val.stage \in {"judged", "rerun"} =>
        /\ val.mos.pass <=>
               (val.upside.k = "num" /\ val.upside.v >= val.th.MOS_upside_min)
        /\ val.upside.k = "none" =>
               /\ ~val.mos.pass
               /\ Len(val.mos.reasons) = 1
               /\ ~(val.quality.pass /\ val.mos.pass)
        /\ DEFAULT_THRESHOLDS.MOS_upside_min = 50 * Scale

\* quality passed, no upside estimate: mos_pass failed with its reason
C19_Witness ==
    /\ val.stage = "judged"
    /\ val.upside = XNone
    /\ val.quality.pass
    /\ ~val.mos.pass
    /\ val.mos.reasons = <<Msg("No upside estimate", 0)>>

C22_FailureScoped ==
    (/\ scr_log.failed # {}
     /\ scr_log.throttled_at = 0
     /\ scr.stage \in {"done", "raised"}
     /\ scr_log.raised => <<0, "listing_status_csv">> \in scr_log.failed) =>
        /\ ~scr_log.raised
        /\ scr.stage = "done"
        /\ scr.i = scr.n

(***************************************************************************)
(* C23: in fast_screen_with_quotes the price sources of a symbol are asked *)
(* in the order yfinance (only with price_source = 'yfinance'), daily      *)
(* adjusted, global quote; a later source is asked only when every earlier *)
(* one yielded no value; the symbol is reported with the first value       *)
(* obtained; a symbol for which no source yields a value is not reported.  *)
(***************************************************************************)
C23_FallbackChain ==
    [][scr.stage \in {"yf", "daily", "quote"} =>
           LET q == scr_log'.last
               before == scr_log.last
               Reported(out) == {out[k] : k \in 1..Len(out)}
           IN /\ q.i = scr.i /\ q.source = scr.stage
              /\ q.source = "yf" => (scr.price_source = "yfinance" /\ before.i # scr.i)
              /\ q.source = "daily" =>
                     IF scr.price_source = "yfinance"
                     THEN before = [i |-> scr.i, source |-> "yf", pct |-> PyNull]
                     ELSE before.i # scr.i
              /\ q.source = "quote" =>
                     before = [i |-> scr.i, source |-> "daily", pct |-> PyNull]
              /\ q.pct.k # "null" =>
                     /\ Reported(scr'.out) = Reported(scr.out) \cup {<<scr.i, q.pct>>}
                     /\ scr'.stage \notin {"daily", "quote"} \/ scr'.i = scr.i + 1
              /\ q.pct.k = "null" => Reported(scr'.out) = Reported(scr.out)
              /\ \A e \in Reported(scr.out) : e[1] < scr.i]_vars

\* with price_source = 'yfinance' neither Yahoo nor the daily series had a
\* value and the symbol is reported with the value of the global quote
C23_Witness ==
    /\ scr.price_source = "yfinance"
    /\ scr_log.last.source = "quote"
    /\ scr_log.last.pct.k = "float"
    /\ <<scr_log.last.i, "daily_adjusted">> \in scr_log.calls
    /\ \E k \in 1..Len(scr.out) : scr.out[k] = <<scr_log.last.i, scr_log.last.pct>>

(***************************************************************************)
(* C24: listing_status_csv returns an empty result and raises nothing for  *)
(* a body that starts with '{' or '[', an empty body, a body without data  *)
(* rows and a body with fewer than 2 columns; only a CSV with at least one *)
(* row and at least 2 columns yields a non-empty table.                    *)
(***************************************************************************)
C24_ListingTolerant ==
    (outcome.kind = "returned" /\ outcome.endpoint = "listing_status_csv") =>
        LET b == outcome.body
            table == Returned("listing_status_csv", b)
            emptyCase == \/ b.lead \in {"{", "["}
                         \/ b.csv.rows = 0
                         \/ b.csv.cols < 2
            wellFormed == b.fmt = "text" /\ ~emptyCase
        IN /\ emptyCase => table = NoCsv
           /\ table.rows > 0 => (wellFormed /\ table = b.csv)
           /\ (wellFormed /\ ~b.ragged) => table = b.csv

\* a one-column text body with rows came back and the table is empty
C24_Witness ==
    /\ outcome.kind = "returned"
    /\ outcome.endpoint = "listing_status_csv"
    /\ outcome.body = TextBody(3, 1)
    /\ Returned("listing_status_csv", outcome.body) = NoCsv

(***************************************************************************)
(* C25: fetch_fundamentals(symbol, use_cache=False) neither reads nor      *)
(* writes the cache, so the cache file of the symbol is unchanged whether  *)
(* it existed or not, and it returns what a call with use_cache=True and   *)
(* no cache entry returns for the same provider responses.                 *)
(***************************************************************************)
C25_CacheDisabled ==
    [][LET run == IF fnd.run.pc = "calling" THEN fnd.run ELSE fnd'.run
       IN (\/ fnd'.run # fnd.run /\ ~run.use_cache
           \/ fnd'.res.kind # "none" /\ ~fnd'.res.use_cache) =>
              /\ fund_file' = fund_file
              /\ fnd'.rd = NoRead
              /\ fnd'.wr = NoWrite
              /\ fnd'.res.kind # "none" =>
                     (fnd'.res.net_calls > 0 /\ fnd'.res.as_cached)]_vars

\* a fresh entry was on disk and the call with use_cache=False went to the
\* provider for its bundle
C25_Witness ==
    /\ fnd.res.kind = "bundle"
    /\ ~fnd.res.use_cache
    /\ fnd.res.net_calls = 5
    /\ WellFormed(fund_file)
    /\ now - fund_file.ts.v <= TTL
    /\ Rebuildable(fund_file.data)

(***************************************************************************)
(* C26: the growth used in the projection of dcf_lite is                   *)
(* min(max(RevenueCAGR3Y, 0%), 6%), and 3% when the CAGR is missing: the   *)
(* projected growth is never negative.                                     *)
(***************************************************************************)
C26_GrowthNeverNegative ==
    (val.dcf.kind = "dict" /\ "assumptions" \in val.dcf.keys) =>
        LET x == val.m.RevenueCAGR3Y
            g == val.dcf.assumptions.g
        IN /\ g.k = "num" /\ g.v >= 0
           /\ x.k = "none" => g.v = 30
           /\ x.k = "num" => g.v = Min(Max(x.v, 0), 60)

(***************************************************************************)
(* C28: pacing covers every HTTP attempt: any two consecutive attempts     *)
(* sent by one client (a retry after a failed attempt, or the first        *)
(* attempt of the call that follows a call that used up its retries) are   *)
(* at least pause_sec apart, for every pause_sec and max_retries.          *)
(***************************************************************************)
C28_AttemptPacing == obs.attempt_gap # -1 => obs.attempt_gap >= av.pause_sec

(***************************************************************************)
(* C29: a failed cache write never destroys a stored entry: when a put     *)
(* into the fundamentals cache or the overview cache fails (payload not    *)
(* serializable, or an I/O error during the write), a get for the symbol   *)
(* at any later time returns what it would have returned had the put not   *)
(* been made; within the TTL that is the payload stored before.            *)
(***************************************************************************)
C29_FailedPutKeepsEntry ==
    [][(fnd'.wr.cache # "" /\ fnd'.wr.failed) =>
           \A dt \in {0, 1, CACHE_TTL_SEC, TTL} :
               /\ overview_cache_get(ov_file', now' + dt)
                      = overview_cache_get(ov_file, now' + dt)
               /\ read_cache(fund_file', now' + dt) = read_cache(fund_file, now' + dt)]_vars

(***************************************************************************)
(* Claims about tools/api.py (checked under SpecPages and SpecSearch)      *)
(***************************************************************************)

(***************************************************************************)
(* C27: pagination terminates: whatever start_date, limit and pages the    *)
(* provider sends (full pages whose oldest date equals the current end     *)
(* date included), each pass through the page loop of get_insider_trades   *)
(* and get_company_news either leaves the loop or strictly decreases       *)
(* current_end_date.                                                       *)
(***************************************************************************)
C27_PaginationDecreases ==
    [][(api.pg.stage = "loop" /\ api'.pg.requests = api.pg.requests + 1) =>
           \/ api'.pg.stage # "loop"
           \/ api'.pg.current_end_date < api.pg.current_end_date]_vars

(***************************************************************************)
(* C30: retry protocol of search_line_items: at most max_retries + 1 = 4   *)
(* HTTP attempts; a 400 returns [] at once; a 429 or a network error on    *)
(* attempt k < 3 (0-based) is followed by a sleep of 2 * 2^k seconds plus  *)
(* a jitter in [0, 0.5] and one more attempt; a 429 on the last attempt    *)
(* returns [], a network error on the last attempt raises, any other HTTP  *)
(* error raises at once; the response is parsed only after an attempt      *)
(* that succeeded.                                                         *)
(***************************************************************************)
C30_SearchRetryProtocol ==
    LET sl == api.sl
        n == Len(sl.log)
        Last(k) == k = n /\ sl.log[k].slept = -1
    IN /\ n <= 4
       /\ sl.stage = "try" => sl.retry_count = n
       /\ \A j \in 1..n :
              LET e == sl.log[j]
                  k == j - 1
              IN /\ e.status = "400" =>
                        Last(j) /\ sl.stage = "returned" /\ sl.result = 0 /\ ~sl.parsed
                 /\ (e.status \in {"429", "network"} /\ k < 3) =>
                        /\ e.slept >= 2 * 2^k * Millis
                        /\ e.slept <= 2 * 2^k * Millis + Millis \div 2
                        /\ j = n => sl.stage = "try"
                 /\ (e.status = "429" /\ k = 3) =>
                        Last(j) /\ sl.stage = "returned" /\ sl.result = 0 /\ ~sl.parsed
                 /\ (e.status = "network" /\ k = 3) =>
                        Last(j) /\ sl.stage = "raised" /\ ~sl.parsed
                 /\ e.status = "500" => Last(j) /\ sl.stage = "raised" /\ ~sl.parsed
                 /\ e.status = "200" => Last(j) /\ sl.stage = "returned" /\ sl.parsed
       /\ sl.parsed => (n > 0 /\ sl.log[n].status = "200")

\* C30 witness: three retries (after 429, network error, 429) and a fourth
\* attempt that is rate limited: four attempts, [] returned, nothing parsed.
C30_Witness ==
    /\ api.sl.stage = "returned"
    /\ Len(api.sl.log) = 4
    /\ api.sl.log[1].status = "429"
    /\ api.sl.log[2].status = "network"
    /\ api.sl.log[3].slept = 8 * Millis + Millis \div 2
    /\ api.sl.log[4].status = "429"
====
